---- MODULE Spec2Model ----
(***************************************************************************)
(* A model of the apply-opencode plugin: the frontmatter merge engine     *)
(* (src/src/frontmatter.ts), the enhance-frontmatter command with its     *)
(* review dialog (src/src/main.ts, src/src/diff-modal.ts, opencode.ts)    *)
(* and the wiki-link span engine (src/src/wiki-link-generator.ts).        *)
(*                                                                         *)
(* Text is a sequence of one-character strings.  A frontmatter value is a  *)
(* record [t, v]: t is its JavaScript type and v its payload (the          *)
(* characters of a string, the decimal digits of a number, the items of a  *)
(* list).  A frontmatter map is a function from Keys to values, with       *)
(* Absent for a key the object does not have.                              *)
(***************************************************************************)
EXTENDS Integers, Sequences, FiniteSets, TLC

VARIABLES
  existing,      \* mergeFrontmatter: its first argument
  enhanced,      \* mergeFrontmatter: its second argument
  merged,        \* mergeFrontmatter: the returned object
  mpc,           \* "call" before mergeFrontmatter has run, "done" after
  \* the enhance-frontmatter command and the bulk enhanceFrontmatterForFile
  bulk,              \* TRUE for enhanceFrontmatterForFile, FALSE for the command
  ignored,           \* parsePropertyList(settings.ignoredProperties)
  validProperties,   \* property names of the examples; {} when none was found
  response,          \* parseYamlResponse(response) of the model
  modifiedAfterYaml, \* DiffModal.modifiedAfterYaml
  revised,           \* TRUE once the dialog has taken an AI revision
  written,           \* the metadata block written to the note
  epc,               \* where the command is, or how it ended
  \* generateWikiLinks
  wContent,          \* options.content
  wTitles,           \* options.existingTitles
  wStrategy,         \* options.strategy
  wMode,             \* options.mode
  wIdentify,         \* TRUE when options.identifyEntities is given
  wSpans,            \* the spans found by findTitleMatches or identifyEntities
  wResult,           \* the returned string
  wpc,               \* "call", then "returned" or "thrown"
  \* validateWikiLinkChanges
  vOriginal, vModified, vValid, vpc,
  \* isInExcludedZone
  zContent, zStart, zEnd, excluded, zpc,
  \* findTitleMatches
  tContent,          \* content
  tTitles,           \* titles
  tMatches,          \* the returned spans
  tpc,
  \* filterFirstMentions
  fSpans,            \* spans
  fFirst,            \* the returned spans
  fpc,
  \* applyWikiLinkSpans
  aContent,          \* content
  aSpans,            \* spans
  aResult,           \* the returned string
  apc,
  \* findSimilarNotes
  sFiles,            \* app.vault.getMarkdownFiles() with each file's cache
  currentProps,      \* Object.keys(currentFm)
  limit,
  scored,            \* the scored candidates, once sorted
  sRead,             \* how the read of each of topFiles has gone so far
  results,
  spc,
  \* computePropertyOrder
  examples,          \* Object.keys(example.frontmatter) of each example
  propertyOrder,     \* the returned order
  opc,
  \* generateWikiLinks called again on what it returned
  wAgain,            \* the string the second call returns
  rpc,                \* "idle", then "returned" or "thrown"
  \* orderFrontmatter
  dFrontmatter,   \* frontmatter
  dOrder,   \* propertyOrder
  dOrdered,   \* the returned object
  dpc,
  \* parseFrontmatter and buildContent
  pContent,   \* content
  pParsed,   \* parseFrontmatter(content)
  pBuilt,   \* buildContent of its frontmatter and body
  pReparsed,   \* parseFrontmatter of the built text
  ppc,
  \* the identify-wiki-links command
  cContent,   \* contentToProcess
  cStrategy,   \* settings.wikiLinkStrategy
  cMode,   \* settings.wikiLinkMode
  cModified,   \* what generateWikiLinks returned
  cDialog,   \* ContentDiffModal.modifiedContent
  cWritten,   \* what the command has put into the editor
  cpc,
  \* SkillManager
  uPromise,   \* SkillManager.updatePromise as the number of its check or 0 for null
  uRounds,   \* performUpdateCheck calls so far
  uPending,   \* the fetches of each check that have not settled
  uWait,   \* the check each caller awaits or 0
  uCache,   \* the sha of SkillManager.cache for each source
  \* bulkRenameUntitled and bulkEnhanceFrontmatter
  bKind,   \* which bulk operation runs
  bTotal,   \* files.length
  bIndex,   \* i
  bCurrent,   \* the file being processed or 0
  bCancelled,   \* cancelled
  bStarted,   \* the files started so far in the order of their start
  bCancelAt,   \* how many files had been started when Cancel was pressed or -1
  bModified,   \* the files the operation has changed
  bResults,   \* ProgressModal successes and failures
  bpc

mergeVars == <<existing, enhanced, merged, mpc>>

enhanceVars ==
  <<bulk, ignored, validProperties, response, modifiedAfterYaml, revised, written, epc>>

wikiVars == <<wContent, wTitles, wStrategy, wMode, wIdentify, wSpans, wResult, wpc>>

validateVars == <<vOriginal, vModified, vValid, vpc>>

zoneVars == <<zContent, zStart, zEnd, excluded, zpc>>

titleVars == <<tContent, tTitles, tMatches, tpc>>

mentionVars == <<fSpans, fFirst, fpc>>

applyVars == <<aContent, aSpans, aResult, apc>>

searchVars == <<sFiles, currentProps, limit, scored, sRead, results, spc>>

orderVars == <<examples, propertyOrder, opc>>

againVars == <<wAgain, rpc>>

arrangeVars == <<dFrontmatter, dOrder, dOrdered, dpc>>

parseVars == <<pContent, pParsed, pBuilt, pReparsed, ppc>>

commandVars == <<cContent, cStrategy, cMode, cModified, cDialog, cWritten, cpc>>

skillVars == <<uPromise, uRounds, uPending, uWait, uCache>>

bulkVars == <<bKind, bTotal, bIndex, bCurrent, bCancelled, bStarted, bCancelAt, bModified, bResults, bpc>>

lateVars == <<againVars, arrangeVars, parseVars, commandVars, skillVars, bulkVars>>

unitVars == <<titleVars, mentionVars, applyVars, searchVars, orderVars, lateVars>>

vars == <<mergeVars, enhanceVars, wikiVars, validateVars, zoneVars, unitVars>>

-----------------------------------------------------------------------------
(* Bounds *)

MaxStrLen == 2     \* longest frontmatter string
MaxListLen == 2    \* longest frontmatter list

-----------------------------------------------------------------------------
(* Frontmatter values *)

Absent == [t |-> "absent", v |-> <<>>]
Null == [t |-> "null", v |-> <<>>]
Str(s) == [t |-> "str", v |-> s]
Num(digits) == [t |-> "num", v |-> digits]
List(items) == [t |-> "list", v |-> items]

FmAlphabet == {"a", "1"}

SeqsUpTo(S, n) == UNION {[1..k -> S] : k \in 0..n}

FmStrings == {Str(s) : s \in SeqsUpTo(FmAlphabet, MaxStrLen)}

\* The items a list holds: two strings and the number 1, whose string
\* representation is that of the string "1".
FmItems == {Str(<<"a">>), Str(<<"1">>), Num(<<"1">>)}

FmLists == {List(l) : l \in SeqsUpTo(FmItems, MaxListLen)}

FmValues == {Absent, Null, Num(<<"1">>)} \cup FmStrings \cup FmLists

FmScalars == {Absent, Null, Str(<<>>), Str(<<"a">>), Num(<<"1">>)}

Keys == {"tags", "title"}

\* The values a key is given: any value for "tags", a scalar for "title".
KeyValues(k) == IF k = "tags" THEN FmValues ELSE FmScalars

FmMaps == {f \in [Keys -> FmValues] : \A k \in Keys : f[k] \in KeyValues(k)}

\* String(item) of JavaScript, for the scalars a list holds.
ToStr(item) == IF item.t = "null" THEN <<"n", "u", "l", "l">> ELSE item.v

\* String.prototype.includes
Includes(s, sub) ==
  \E i \in 0..(Len(s) - Len(sub)) : SubSeq(s, i + 1, i + Len(sub)) = sub

-----------------------------------------------------------------------------
(* mergeFrontmatter, src/src/frontmatter.ts *)

\* mergeFrontmatter with the type tests only: a list replaces a list and a
\* string replaces a string.
MergeValue_Replace(e, n) ==
  IF e.t \in {"absent", "null"} \/ e = Str(<<>>) THEN n
  ELSE IF e.t = "list" /\ n.t = "list" THEN n
  ELSE IF e.t = "str" /\ n.t = "str" THEN n
  ELSE e

\* mergeFrontmatter without the existingSet filter: every new item is appended.
MergeValue_NoFilter(e, n) ==
  IF e.t \in {"absent", "null"} \/ e = Str(<<>>) THEN n
  ELSE IF e.t = "list" /\ n.t = "list" THEN List(e.v \o n.v)
  ELSE IF e.t = "str" /\ n.t = "str" THEN
    IF Len(n.v) > Len(e.v) /\ Includes(n.v, e.v) THEN n ELSE e
  ELSE e

\* mergeFrontmatter with the length test only: a longer string replaces.
MergeValue_LongerOnly(e, n) ==
  IF e.t \in {"absent", "null"} \/ e = Str(<<>>) THEN n
  ELSE IF e.t = "list" /\ n.t = "list" THEN
    LET inExisting(item) == \E i \in 1..Len(e.v) : ToStr(e.v[i]) = ToStr(item)
        isAddition(item) == ~inExisting(item)
    IN  List(e.v \o SelectSeq(n.v, isAddition))
  ELSE IF e.t = "str" /\ n.t = "str" THEN
    IF Len(n.v) > Len(e.v) THEN n ELSE e
  ELSE e

\* mergeFrontmatter that joins a new string to the existing one it does not
\* contain.
MergeValue_Concatenate(e, n) ==
  IF e.t \in {"absent", "null"} \/ e = Str(<<>>) THEN n
  ELSE IF e.t = "list" /\ n.t = "list" THEN
    LET inExisting(item) == \E i \in 1..Len(e.v) : ToStr(e.v[i]) = ToStr(item)
        isAddition(item) == ~inExisting(item)
    IN  List(e.v \o SelectSeq(n.v, isAddition))
  ELSE IF e.t = "str" /\ n.t = "str" THEN
    IF Includes(n.v, e.v) THEN n ELSE Str(e.v \o n.v)
  ELSE e

\* One iteration of the loop over Object.entries(enhanced): e is merged[key]
\* before the iteration, n the new value; the result is merged[key] after.
MergeValue(e, n) ==
  IF e.t \in {"absent", "null"} \/ e = Str(<<>>) THEN n
  ELSE IF e.t = "list" /\ n.t = "list" THEN
    LET inExisting(item) == \E i \in 1..Len(e.v) : ToStr(e.v[i]) = ToStr(item)
        isAddition(item) == ~inExisting(item)
    IN  List(e.v \o SelectSeq(n.v, isAddition))
  ELSE IF e.t = "str" /\ n.t = "str" THEN
    IF Len(n.v) > Len(e.v) /\ Includes(n.v, e.v) THEN n ELSE e
  ELSE e

\* The keys of enhanced are distinct and an iteration reads and writes
\* merged[key] only, so the loop is a map over the keys of enhanced.
mergeFrontmatter(ex, en) ==
  [k \in Keys |-> IF en[k] = Absent THEN ex[k] ELSE MergeValue(ex[k], en[k])]

\* generateWikiLinks, validateWikiLinkChanges and isInExcludedZone are not
\* running.
WikiIdle ==
  /\ wContent = <<>>
  /\ wTitles = <<>>
  /\ wStrategy = "existing-only"
  /\ wMode = "all"
  /\ wIdentify = FALSE
  /\ wSpans = <<>>
  /\ wResult = <<>>
  /\ wpc = "idle"

ValidateIdle ==
  /\ vOriginal = <<>>
  /\ vModified = <<>>
  /\ vValid = FALSE
  /\ vpc = "idle"

ZoneIdle ==
  /\ zContent = <<>>
  /\ zStart = 0
  /\ zEnd = 0
  /\ excluded = FALSE
  /\ zpc = "idle"

TextIdle == WikiIdle /\ ValidateIdle /\ ZoneIdle

TitleIdle ==
  /\ tContent = <<>>
  /\ tTitles = <<>>
  /\ tMatches = <<>>
  /\ tpc = "idle"

MentionIdle ==
  /\ fSpans = <<>>
  /\ fFirst = <<>>
  /\ fpc = "idle"

ApplyIdle ==
  /\ aContent = <<>>
  /\ aSpans = <<>>
  /\ aResult = <<>>
  /\ apc = "idle"

SearchIdle ==
  /\ sFiles = <<>>
  /\ currentProps = {}
  /\ limit = 0
  /\ scored = <<>>
  /\ sRead = <<>>
  /\ results = <<>>
  /\ spc = "idle"

OrderIdle ==
  /\ examples = <<>>
  /\ propertyOrder = <<>>
  /\ opc = "idle"

AgainIdle ==
  /\ wAgain = <<>>
  /\ rpc = "idle"

ArrangeIdle ==
  /\ dFrontmatter = <<>>
  /\ dOrder = <<>>
  /\ dOrdered = <<>>
  /\ dpc = "idle"

ParseIdle ==
  /\ pContent = <<>>
  /\ pParsed = <<>>
  /\ pBuilt = <<>>
  /\ pReparsed = <<>>
  /\ ppc = "idle"

CommandIdle ==
  /\ cContent = <<>>
  /\ cStrategy = "existing-only"
  /\ cMode = "all"
  /\ cModified = <<>>
  /\ cDialog = <<>>
  /\ cWritten = [kind |-> "null", v |-> <<>>]
  /\ cpc = "idle"

SkillIdle ==
  /\ uPromise = 0
  /\ uRounds = 0
  /\ uPending = <<>>
  /\ uWait = <<>>
  /\ uCache = <<>>

BulkIdle ==
  /\ bKind = "rename"
  /\ bTotal = 0
  /\ bIndex = 0
  /\ bCurrent = 0
  /\ bCancelled = FALSE
  /\ bStarted = <<>>
  /\ bCancelAt = -1
  /\ bModified = {}
  /\ bResults = <<0, 0>>
  /\ bpc = "idle"

LateIdle == AgainIdle /\ ArrangeIdle /\ ParseIdle /\ CommandIdle /\ SkillIdle /\ BulkIdle

UnitsIdle ==
  TitleIdle /\ MentionIdle /\ ApplyIdle /\ SearchIdle /\ OrderIdle /\ LateIdle

\* The command is not running.
EnhanceIdle ==
  /\ bulk = FALSE
  /\ ignored = {}
  /\ validProperties = {}
  /\ response = [k \in Keys |-> Absent]
  /\ modifiedAfterYaml = <<>>
  /\ revised = FALSE
  /\ written = <<>>
  /\ epc = "idle"

InitMerge ==
  /\ UnitsIdle
  /\ existing \in FmMaps
  /\ enhanced \in FmMaps
  /\ merged = [k \in Keys |-> Absent]
  /\ mpc = "call"
  /\ EnhanceIdle
  /\ TextIdle

Merge ==
  /\ mpc = "call"
  /\ merged' = mergeFrontmatter(existing, enhanced)
  /\ mpc' = "done"
  /\ UNCHANGED <<existing, enhanced>>
  /\ UNCHANGED <<enhanceVars, wikiVars, validateVars, zoneVars, unitVars>>

NextMerge == Merge

SpecMerge == InitMerge /\ [][NextMerge]_vars

-----------------------------------------------------------------------------
(* Properties of mergeFrontmatter, checked under SpecMerge *)

\* A value the merge must keep: neither null nor the empty string.
HasValue(e) == e.t \notin {"absent", "null"} /\ e # Str(<<>>)

IsPrefix(p, s) == Len(p) <= Len(s) /\ SubSeq(s, 1, Len(p)) = p

\* s is e with characters added before or after it, and at least one.
StrictlyExtends(s, e) ==
  /\ s # e
  /\ \E i \in 0..Len(s) : \E j \in i..Len(s) : SubSeq(s, i + 1, j) = e

\* m keeps e: the same value, a longer string containing it, or a list that
\* begins with its items.
Keeps(e, m) ==
  \/ m = e
  \/ e.t = "str" /\ m.t = "str" /\ StrictlyExtends(m.v, e.v)
  \/ e.t = "list" /\ m.t = "list" /\ IsPrefix(e.v, m.v)

\* C1: every key with a non-null, non-empty value in existing is still in
\* the merged map, with the same value, a longer string containing it, or a
\* list beginning with the existing items.
C1_MergeNeverLosesData ==
  mpc = "done" => \A k \in Keys : HasValue(existing[k]) => Keeps(existing[k], merged[k])

\* The model proposes an unrelated title and other tags; the title stays and
\* the tags grow.
C1_Witness ==
  /\ mpc = "done"
  /\ existing["title"] = Str(<<"a">>) /\ enhanced["title"] = Num(<<"1">>)
  /\ existing["tags"].t = "list" /\ Len(existing["tags"].v) = 2
  /\ enhanced["tags"].t = "list"
  /\ merged["tags"] # existing["tags"]

\* The items of nv whose string representation no item of ev has, in the
\* order of nv: the j-th of them is nv[i] for the j-th smallest such index i.
NewItems(ev, nv) ==
  LET idx == {i \in 1..Len(nv) : \A h \in 1..Len(ev) : ToStr(ev[h]) # ToStr(nv[i])}
      nth(j) == CHOOSE i \in idx : Cardinality({h \in idx : h < i}) = j - 1
  IN  [j \in 1..Cardinality(idx) |-> nv[nth(j)]]

\* C6: when a key holds a list in both maps, the merged list is the existing
\* list followed by the enhanced items whose string representation is not
\* among the existing items, in the order of enhanced.
C6_ListUnionOrder ==
  mpc = "done" =>
    \A k \in Keys :
      existing[k].t = "list" /\ enhanced[k].t = "list" =>
        /\ merged[k].t = "list"
        /\ IsPrefix(existing[k].v, merged[k].v)
        /\ SubSeq(merged[k].v, Len(existing[k].v) + 1, Len(merged[k].v))
             = NewItems(existing[k].v, enhanced[k].v)

\* The enhanced list repeats an existing item in another type (the number 1
\* for the string "1") and brings a new one.
C6_Witness ==
  /\ mpc = "done"
  /\ existing["tags"] = List(<<Str(<<"1">>)>>)
  /\ enhanced["tags"] = List(<<Num(<<"1">>), Str(<<"a">>)>>)
  /\ merged["tags"] = List(<<Str(<<"1">>), Str(<<"a">>)>>)

NoDuplicates(l) ==
  \A i \in 1..Len(l) : \A j \in 1..Len(l) : i # j => ToStr(l[i]) # ToStr(l[j])

\* C7: when the existing list has no two items with the same string
\* representation, the merged list has none either.
C7_UnionDuplicateFree ==
  mpc = "done" =>
    \A k \in Keys :
      existing[k].t = "list" /\ enhanced[k].t = "list" /\ NoDuplicates(existing[k].v)
        => NoDuplicates(merged[k].v)

\* C8: a non-empty existing string and an enhanced string merge to the
\* enhanced string exactly when it strictly extends the existing one, and to
\* the existing string otherwise.
C8_StringExtension ==
  mpc = "done" =>
    \A k \in Keys :
      existing[k].t = "str" /\ existing[k].v # <<>> /\ enhanced[k].t = "str" =>
        merged[k] = IF StrictlyExtends(enhanced[k].v, existing[k].v)
                    THEN enhanced[k] ELSE existing[k]

\* A longer string that contains the existing one is adopted.
C8_Witness ==
  /\ mpc = "done"
  /\ existing["tags"] = Str(<<"a">>)
  /\ enhanced["tags"] = Str(<<"1", "a">>)
  /\ merged["tags"] = Str(<<"1", "a">>)

-----------------------------------------------------------------------------
(* YAML text of a frontmatter map, as the review dialog holds it: a         *)
(* sequence of lines.  A property with a scalar is the line "key: value"    *)
(* (ind 0, val the scalar); a non-empty list is the line "key:" (val        *)
(* NoVal) followed by one line "  - item" (ind 2) per item.  Key order is   *)
(* not represented in a map, so the properties are written in KeyOrder.     *)

NoVal == [t |-> "none", v |-> <<>>]

KeyOrder == <<"tags", "title">>

PropLine(k, x) == [ind |-> 0, key |-> k, val |-> x]
ItemLine(x) == [ind |-> 2, key |-> "-", val |-> x]

\* stringifyYaml({}) is the line "{}".
EmptyObjectLine == [ind |-> 0, key |-> "{}", val |-> NoVal]

YamlOfKey(k, x) ==
  IF x = Absent THEN <<>>
  ELSE IF x.t = "list" /\ x.v # <<>> THEN
    <<PropLine(k, NoVal)>> \o [i \in 1..Len(x.v) |-> ItemLine(x.v[i])]
  ELSE <<PropLine(k, x)>>

RECURSIVE YamlOfKeys(_, _)
YamlOfKeys(fm, ks) ==
  IF ks = <<>> THEN <<>>
  ELSE YamlOfKey(Head(ks), fm[Head(ks)]) \o YamlOfKeys(fm, Tail(ks))

\* stringifyYaml(data).trim(), line by line
stringifyYaml(fm) ==
  IF \A k \in Keys : fm[k] = Absent THEN <<EmptyObjectLine>>
  ELSE YamlOfKeys(fm, KeyOrder)

\* parseYaml of blank text is null; the callers test for it.
YamlIsBlank(lines) == lines = <<>>

\* The item lines that directly follow line i.
RECURSIVE ItemsAfter(_, _)
ItemsAfter(lines, i) ==
  IF i + 1 <= Len(lines) /\ lines[i + 1].ind > 0
  THEN <<lines[i + 1].val>> \o ItemsAfter(lines, i + 1)
  ELSE <<>>

\* parseYaml of text that is not blank
parseYaml(lines) ==
  [k \in Keys |->
     IF \E i \in 1..Len(lines) : lines[i].ind = 0 /\ lines[i].key = k
     THEN LET i == CHOOSE j \in 1..Len(lines) : lines[j].ind = 0 /\ lines[j].key = k
              items == ItemsAfter(lines, i)
          IN  IF lines[i].val # NoVal THEN lines[i].val
              ELSE IF items = <<>> THEN Null
              ELSE List(items)
     ELSE Absent]

-----------------------------------------------------------------------------
(* enhanceFrontmatter: the filters applied to the model's answer *)

\* filterIgnoredProperties that returns the model's answer as it is.
filterIgnoredProperties_None(enh, ex, ign) == enh

\* `prop in existing` is existing[prop] # Absent: a note without metadata
\* block (existing = null) is the map with every key Absent.
filterIgnoredProperties(enh, ex, ign) ==
  [k \in Keys |-> IF k \in ign THEN ex[k] ELSE enh[k]]

filterToValidProperties(enh, ex, valid) ==
  IF valid = {} THEN enh
  ELSE LET allowed == valid \cup {k \in Keys : ex[k] # Absent}
       IN  [k \in Keys |-> IF k \in allowed THEN enh[k] ELSE Absent]

\* enhanceFrontmatter(content, existing, options).frontmatter, for the
\* parsed answer r of the model
enhanceFrontmatter(r, ex, ign, valid) ==
  filterToValidProperties(filterIgnoredProperties(r, ex, ign), ex, valid)

-----------------------------------------------------------------------------
(* The enhance-frontmatter command, its review dialog, and the bulk         *)
(* enhanceFrontmatterForFile                                                 *)

\* What the notes hold and what the model answers (parseYamlResponse yields
\* strings, numbers, booleans and lists, never null).
NoteTags == {Absent, Null, List(<<Str(<<"a">>)>>)}
NoteTitles == {Absent, Str(<<>>), Str(<<"a">>)}
ModelTags == {Absent, Str(<<"a">>), List(<<Str(<<"1">>)>>),
              List(<<Str(<<"a">>), Str(<<"1">>)>>)}
ModelTitles == {Absent, Str(<<"1">>), Str(<<"a", "1">>)}

NoteMaps == {f \in [Keys -> NoteTags \cup NoteTitles] :
               f["tags"] \in NoteTags /\ f["title"] \in NoteTitles}
ModelMaps == {f \in [Keys -> ModelTags \cup ModelTitles] :
                f["tags"] \in ModelTags /\ f["title"] \in ModelTitles}

\* The property names of the examples findSimilarNotes returned: every
\* example has at least one property, so {} stands for "no example".
ExampleProperties == {{}, {"other"}, {"tags"}, {"tags", "title"}}

MergeIdle ==
  /\ enhanced = [k \in Keys |-> Absent]
  /\ merged = [k \in Keys |-> Absent]
  /\ mpc = "idle"

InitEnhance ==
  /\ UnitsIdle
  /\ existing \in NoteMaps
  /\ MergeIdle
  /\ bulk \in BOOLEAN
  /\ ignored \in SUBSET Keys
  /\ validProperties \in ExampleProperties
  /\ response = [k \in Keys |-> Absent]
  /\ modifiedAfterYaml = <<>>
  /\ revised = FALSE
  /\ written = <<>>
  /\ epc = "start"
  /\ TextIdle

\* showDiffModal: beforeYaml is "" for a note without metadata block
beforeYaml ==
  IF \A k \in Keys : existing[k] = Absent THEN <<>> ELSE stringifyYaml(existing)

\* The command going on without an example: the note is written back.
NoExamples_Proceeds ==
  /\ epc = "start"
  /\ validProperties = {}
  /\ written' = stringifyYaml(existing)
  /\ epc' = "written"
  /\ UNCHANGED <<mergeVars, bulk, ignored, validProperties, response,
                 modifiedAfterYaml, revised>>
  /\ UNCHANGED <<wikiVars, validateVars, zoneVars, unitVars>>

\* examples.length === 0: the command and the bulk operation stop.
NoExamples ==
  /\ epc = "start"
  /\ validProperties = {}
  /\ epc' = "refused"
  /\ UNCHANGED <<mergeVars, bulk, ignored, validProperties, response,
                 modifiedAfterYaml, revised, written>>
  /\ UNCHANGED <<wikiVars, validateVars, zoneVars, unitVars>>

\* The model invocation throws: the catch block reports it.
EnhanceFails ==
  /\ epc = "start"
  /\ validProperties # {}
  /\ epc' = "failed"
  /\ UNCHANGED <<mergeVars, bulk, ignored, validProperties, response,
                 modifiedAfterYaml, revised, written>>
  /\ UNCHANGED <<wikiVars, validateVars, zoneVars, unitVars>>

\* The command up to showDiffModal: the model answers r.
EnhanceCommand ==
  /\ epc = "start"
  /\ ~bulk
  /\ validProperties # {}
  /\ \E r \in ModelMaps :
       /\ response' = r
       /\ enhanced' = enhanceFrontmatter(r, existing, ignored, validProperties)
       /\ merged' = mergeFrontmatter(existing, enhanced')
       /\ IF stringifyYaml(merged') = beforeYaml
          THEN epc' = "unchanged" /\ UNCHANGED modifiedAfterYaml
          ELSE epc' = "modal" /\ modifiedAfterYaml' = stringifyYaml(merged')
  /\ UNCHANGED <<existing, mpc, bulk, ignored, validProperties, revised, written>>
  /\ UNCHANGED <<wikiVars, validateVars, zoneVars, unitVars>>

\* enhanceFrontmatterForFile: the merged frontmatter is written at once.
EnhanceBulk ==
  /\ epc = "start"
  /\ bulk
  /\ validProperties # {}
  /\ \E r \in ModelMaps :
       /\ response' = r
       /\ enhanced' = enhanceFrontmatter(r, existing, ignored, validProperties)
       /\ merged' = mergeFrontmatter(existing, enhanced')
       /\ written' = stringifyYaml(merged')
  /\ epc' = "written"
  /\ UNCHANGED <<existing, mpc, bulk, ignored, validProperties,
                 modifiedAfterYaml, revised>>
  /\ UNCHANGED <<wikiVars, validateVars, zoneVars, unitVars>>

Count(lines, c) == Cardinality({i \in 1..Len(lines) : lines[i] = c})

\* The lines the diff shows as additions: those modifiedAfterYaml has more
\* often than beforeYaml.
AdditionLines ==
  {modifiedAfterYaml[i] : i \in
     {j \in 1..Len(modifiedAfterYaml) :
        Count(modifiedAfterYaml, modifiedAfterYaml[j]) > Count(beforeYaml, modifiedAfterYaml[j])}}

\* /^[a-zA-Z_][a-zA-Z0-9_]*:/ on the trimmed line
isPropertyLine(c) == c.key \notin {"-", "{}"}

\* The end of the lines removed with the property line at index: every
\* following line with a greater indent.
RECURSIVE EndIndex(_, _, _)
EndIndex(lines, at, baseIndent) ==
  IF at <= Len(lines) /\ lines[at].ind > baseIndent
  THEN EndIndex(lines, at + 1, baseIndent)
  ELSE at

\* DiffModal.removeLine(content)
removeLine(lines, c) ==
  IF \A i \in 1..Len(lines) : lines[i] # c THEN lines
  ELSE LET index == CHOOSE i \in 1..Len(lines) :
                      lines[i] = c /\ \A j \in 1..(i - 1) : lines[j] # c
           endIndex == IF isPropertyLine(c) THEN EndIndex(lines, index + 1, c.ind)
                       ELSE index + 1
       IN  SubSeq(lines, 1, index - 1) \o SubSeq(lines, endIndex, Len(lines))

\* The user clicks an added line of the diff.
RemoveLine ==
  /\ epc = "modal"
  /\ \E c \in AdditionLines : modifiedAfterYaml' = removeLine(modifiedAfterYaml, c)
  /\ UNCHANGED <<mergeVars, bulk, ignored, validProperties, response, revised,
                 written, epc>>
  /\ UNCHANGED <<wikiVars, validateVars, zoneVars, unitVars>>

\* DiffModal.handleRevision: the revision callback returns YAML text, which
\* replaces modifiedAfterYaml.
HandleRevision ==
  /\ epc = "modal"
  /\ \E r \in ModelMaps : modifiedAfterYaml' = stringifyYaml(r)
  /\ revised' = TRUE
  /\ UNCHANGED <<mergeVars, bulk, ignored, validProperties, response, written, epc>>
  /\ UNCHANGED <<wikiVars, validateVars, zoneVars, unitVars>>

\* "Apply changes": the command parses modifiedYaml and writes it.
Apply ==
  /\ epc = "modal"
  /\ IF YamlIsBlank(modifiedAfterYaml)
     THEN epc' = "parsefail" /\ UNCHANGED written
     ELSE epc' = "applied" /\ written' = stringifyYaml(parseYaml(modifiedAfterYaml))
  /\ UNCHANGED <<mergeVars, bulk, ignored, validProperties, response,
                 modifiedAfterYaml, revised>>
  /\ UNCHANGED <<wikiVars, validateVars, zoneVars, unitVars>>

\* "Cancel", or the dialog is closed.
Cancel ==
  /\ epc = "modal"
  /\ epc' = "discarded"
  /\ UNCHANGED <<mergeVars, bulk, ignored, validProperties, response,
                 modifiedAfterYaml, revised, written>>
  /\ UNCHANGED <<wikiVars, validateVars, zoneVars, unitVars>>

NextEnhance ==
  \/ NoExamples
  \/ EnhanceFails
  \/ EnhanceCommand
  \/ EnhanceBulk
  \/ RemoveLine
  \/ HandleRevision
  \/ Apply
  \/ Cancel

SpecEnhance == InitEnhance /\ [][NextEnhance]_vars

-----------------------------------------------------------------------------
(* Properties of the enhance-frontmatter command, checked under SpecEnhance *)

\* The note has been written.
Wrote == epc \in {"applied", "written"}

\* mergeFrontmatter has run.
Merged == epc \in {"modal", "unchanged", "applied", "parsefail", "discarded", "written"}

\* C3: the frontmatter written back never removes or overwrites a value the
\* note's frontmatter already had, whatever lines the user removed in the
\* review dialog; stated here for the runs without any AI revision.
C3_WriteKeepsExisting ==
  Wrote /\ ~revised =>
    \A k \in Keys : HasValue(existing[k]) => Keeps(existing[k], parseYaml(written)[k])

\* C9: after enhanceFrontmatter and mergeFrontmatter every ignored property
\* is as in the existing frontmatter: the same value, or absent.
C9_IgnoredUntouched ==
  Merged => \A p \in ignored : merged[p] = existing[p]

\* The model fills the ignored empty title and adds a tag: the merge takes
\* the tag and leaves the title empty.
C9_Witness ==
  /\ Merged
  /\ "title" \in ignored /\ "tags" \notin ignored
  /\ existing["title"] = Str(<<>>) /\ response["title"] = Str(<<"1">>)
  /\ merged["title"] = Str(<<>>)
  /\ merged["tags"] # existing["tags"]

-----------------------------------------------------------------------------
(* Text of a note: a sequence of characters.  Offsets are those of          *)
(* JavaScript, counted from 0; the character at offset i is s[i + 1].       *)

Min(a, b) == IF a < b THEN a ELSE b
Max(a, b) == IF a < b THEN b ELSE a

\* s.slice(from, to) for 0 <= from
Slice(s, from, to) == SubSeq(s, from + 1, Min(to, Len(s)))

\* The text at offset i is exactly pat.
At(s, i, pat) == i + Len(pat) <= Len(s) /\ SubSeq(s, i + 1, i + Len(pat)) = pat

\* The offset of the first character at or after i that is in stop, or
\* Len(s) when there is none: the end of a greedy run of [^stop].
RECURSIVE RunEnd(_, _, _)
RunEnd(s, i, stop) ==
  IF i >= Len(s) \/ s[i + 1] \in stop THEN i ELSE RunEnd(s, i + 1, stop)

\* The offset of the first occurrence of pat at or after i, or -1.
RECURSIVE IndexOf(_, _, _)
IndexOf(s, pat, i) ==
  IF i + Len(pat) > Len(s) THEN -1
  ELSE IF At(s, i, pat) THEN i
  ELSE IndexOf(s, pat, i + 1)

\* String.prototype.toLowerCase on the characters of the model
LowerChar(c) == IF c = "A" THEN "a" ELSE c
toLowerCase(s) == [i \in 1..Len(s) |-> LowerChar(s[i])]

OpenBr == <<"[", "[">>
CloseBr == <<"]", "]">>

\* /\[\[[^\]|]+\|([^\]]+)\]\]/ at offset i: [[, a run without ] and |, a
\* bar, a run without ], ]].  The runs are greedy and a shorter run cannot
\* match, so there is at most one match at i; its end offset, or -1.
AliasedLinkEnd(s, i) ==
  IF ~At(s, i, OpenBr) THEN -1
  ELSE LET p == RunEnd(s, i + 2, {"]", "|"})
           q == RunEnd(s, p + 1, {"]"})
       IN  IF p > i + 2 /\ At(s, p, <<"|">>) /\ q > p + 1 /\ At(s, q, CloseBr)
           THEN q + 2 ELSE -1

\* The offset where the display text of the aliased link at i starts.
AliasedDisplayStart(s, i) == RunEnd(s, i + 2, {"]", "|"}) + 1

\* /\[\[([^\]]+)\]\]/ at offset i; the end offset of the match, or -1.
SimpleLinkEnd(s, i) ==
  IF ~At(s, i, OpenBr) THEN -1
  ELSE LET q == RunEnd(s, i + 2, {"]"})
       IN  IF q > i + 2 /\ At(s, q, CloseBr) THEN q + 2 ELSE -1

\* s.replace(/\[\[[^\]|]+\|([^\]]+)\]\]/g, "$1"), from offset i on
RECURSIVE StripAliasedFrom(_, _)
StripAliasedFrom(s, i) ==
  IF i >= Len(s) THEN <<>>
  ELSE LET e == AliasedLinkEnd(s, i)
       IN  IF e = -1 THEN <<s[i + 1]>> \o StripAliasedFrom(s, i + 1)
           ELSE Slice(s, AliasedDisplayStart(s, i), e - 2) \o StripAliasedFrom(s, e)

\* s.replace(/\[\[([^\]]+)\]\]/g, "$1"), from offset i on
RECURSIVE StripSimpleFrom(_, _)
StripSimpleFrom(s, i) ==
  IF i >= Len(s) THEN <<>>
  ELSE LET e == SimpleLinkEnd(s, i)
       IN  IF e = -1 THEN <<s[i + 1]>> \o StripSimpleFrom(s, i + 1)
           ELSE Slice(s, i + 2, e - 2) \o StripSimpleFrom(s, e)

\* stripWikiLinks of validateWikiLinkChanges
stripWikiLinks(s) == StripSimpleFrom(StripAliasedFrom(s, 0), 0)

\* validateWikiLinkChanges that accepts every modification.
validateWikiLinkChanges_Always(original, modified) == TRUE

validateWikiLinkChanges(original, modified) ==
  stripWikiLinks(original) = stripWikiLinks(modified)

-----------------------------------------------------------------------------
(* Spans, src/src/wiki-link-generator.ts.  A span without alias has the     *)
(* empty alias, which `if (span.alias)` takes for none.                      *)

Span(start, end, text, alias) ==
  [start |-> start, end |-> end, text |-> text, alias |-> alias]

\* Array.prototype.sort by an integer key, ascending and stable: rs is a
\* sequence of records with a field k.
RECURSIVE InsertByKey(_, _)
InsertByKey(sorted, r) ==
  IF sorted = <<>> THEN <<r>>
  ELSE IF r.k < Head(sorted).k THEN <<r>> \o sorted
  ELSE <<Head(sorted)>> \o InsertByKey(Tail(sorted), r)

RECURSIVE SortByKey(_)
SortByKey(rs) ==
  IF rs = <<>> THEN <<>>
  ELSE InsertByKey(SortByKey(SubSeq(rs, 1, Len(rs) - 1)), rs[Len(rs)])

\* A word-boundary test that every character passes.
isWordBoundary_Any(c) == TRUE

\* /[\s[\](){}<>,.:;!?"'\-/]/ on the characters of the model
isWordBoundary(c) == c \in {" ", "\n", "[", "]", "-"}

\* The while loop of findTitleMatches for one title, from searchStart on.
RECURSIVE ScanTitle(_, _, _, _)
ScanTitle(content, title, searchStart, spans) ==
  LET index == IndexOf(toLowerCase(content), toLowerCase(title), searchStart)
      end == index + Len(title)
      overlaps == \E n \in 1..Len(spans) :
                    \/ index >= spans[n].start /\ index < spans[n].end
                    \/ end > spans[n].start /\ end <= spans[n].end
      charBefore == IF index > 0 THEN content[index] ELSE " "
      charAfter == IF end < Len(content) THEN content[end + 1] ELSE " "
      accepted == ~overlaps /\ isWordBoundary(charBefore) /\ isWordBoundary(charAfter)
  IN  IF index = -1 THEN spans
      ELSE ScanTitle(content, title, index + 1,
                     IF accepted
                     THEN Append(spans, Span(index, end, Slice(content, index, end), <<>>))
                     ELSE spans)

\* The for loop of findTitleMatches over the sorted titles.
RECURSIVE ScanTitles(_, _, _)
ScanTitles(content, titles, spans) ==
  IF titles = <<>> THEN spans
  ELSE ScanTitles(content, Tail(titles),
                  IF Len(Head(titles)) < 2 THEN spans
                  ELSE ScanTitle(content, Head(titles), 0, spans))

\* findTitleMatches that takes the titles in the order given.
findTitleMatches_Unsorted(content, titles) == ScanTitles(content, titles, <<>>)

findTitleMatches(content, titles) ==
  LET keyed == [i \in 1..Len(titles) |-> [k |-> 0 - Len(titles[i]), x |-> titles[i]]]
      sorted == SortByKey(keyed)
      sortedTitles == [i \in 1..Len(sorted) |-> sorted[i].x]
  IN  ScanTitles(content, sortedTitles, <<>>)

\* The loop body of applyWikiLinkSpans without the check of the text.
applyOne_Unverified(result, span) ==
  LET before == Slice(result, 0, span.start)
      text == Slice(result, span.start, span.end)
      after == Slice(result, span.end, Len(result))
  IN  IF span.alias # <<>>
      THEN before \o OpenBr \o span.alias \o <<"|">> \o text \o CloseBr \o after
      ELSE before \o OpenBr \o text \o CloseBr \o after

applyOne(result, span) ==
  LET before == Slice(result, 0, span.start)
      text == Slice(result, span.start, span.end)
      after == Slice(result, span.end, Len(result))
  IN  IF text # span.text THEN result
      ELSE IF span.alias # <<>>
           THEN before \o OpenBr \o span.alias \o <<"|">> \o text \o CloseBr \o after
           ELSE before \o OpenBr \o text \o CloseBr \o after

RECURSIVE applyAll(_, _)
applyAll(result, spans) ==
  IF spans = <<>> THEN result
  ELSE applyAll(applyOne(result, Head(spans)), Tail(spans))

\* applyWikiLinkSpans that takes the spans in the order given.
applyWikiLinkSpans_Unsorted(content, spans) == applyAll(content, spans)

applyWikiLinkSpans(content, spans) ==
  LET keyed == [i \in 1..Len(spans) |-> [k |-> 0 - spans[i].start, x |-> spans[i]]]
      sorted == SortByKey(keyed)
  IN  applyAll(content, [i \in 1..Len(sorted) |-> sorted[i].x])

NL == "\n"
Dashes == <<"-", "-", "-">>
\* The backquote, which a TLA+ string cannot hold, is written "~".
BT == "~"
Fence == <<BT, BT, BT>>

\* The length of the match of /^---\n[\s\S]*?\n---\n/, or 0 without match.
frontmatterMatchLength(content) ==
  LET close == IndexOf(content, <<NL>> \o Dashes \o <<NL>>, 4)
  IN  IF At(content, 0, Dashes \o <<NL>>) /\ close # -1 THEN close + 5 ELSE 0

\* /```[\s\S]*?```|`[^`\n]+`/ at offset i; the end offset of the match, or -1.
CodeEnd(s, i) ==
  LET close == IndexOf(s, Fence, i + 3)
      q == RunEnd(s, i + 1, {BT, NL})
  IN  IF At(s, i, Fence) /\ close # -1 THEN close + 3
      ELSE IF At(s, i, <<BT>>) /\ q > i + 1 /\ At(s, q, <<BT>>) THEN q + 1
      ELSE -1

\* The matches regex.exec finds in turn from offset i on, as [index, end];
\* wiki is TRUE for /\[\[[^\]]+\]\]/g and FALSE for the code regex.
RECURSIVE Matches(_, _, _)
Matches(s, i, wiki) ==
  IF i >= Len(s) THEN {}
  ELSE LET e == IF wiki THEN SimpleLinkEnd(s, i) ELSE CodeEnd(s, i)
       IN  IF e = -1 THEN Matches(s, i + 1, wiki)
           ELSE {[index |-> i, end |-> e]} \cup Matches(s, e, wiki)

\* isInExcludedZone that excludes nothing.
isInExcludedZone_Never(content, start, end) == FALSE

isInExcludedZone(content, start, end) ==
  \/ frontmatterMatchLength(content) > 0 /\ start < frontmatterMatchLength(content)
  \/ \E m \in Matches(content, 0, TRUE) : start >= m.index /\ end <= m.end
  \/ \E m \in Matches(content, 0, FALSE) : start >= m.index /\ end <= m.end

\* The loop of filterFirstMentions over the sorted spans.
RECURSIVE firstMentions(_, _)
firstMentions(sorted, seen) ==
  IF sorted = <<>> THEN <<>>
  ELSE LET key == toLowerCase(Head(sorted).text)
       IN  IF key \in seen THEN firstMentions(Tail(sorted), seen)
           ELSE <<Head(sorted)>> \o firstMentions(Tail(sorted), seen \cup {key})

\* filterFirstMentions that takes the spans in the order given.
filterFirstMentions_Unsorted(spans) == firstMentions(spans, {})

filterFirstMentions(spans) ==
  LET keyed == [i \in 1..Len(spans) |-> [k |-> spans[i].start, x |-> spans[i]]]
      sorted == SortByKey(keyed)
  IN  firstMentions([i \in 1..Len(sorted) |-> sorted[i].x], {})

\* generateWikiLinks with the mode filter ahead of the zone filter.
linkedContent_ModeFirst(content, spans, mode) ==
  LET notExcluded(sp) == ~isInExcludedZone(content, sp.start, sp.end)
      chosen == IF mode = "first" THEN filterFirstMentions(spans) ELSE spans
  IN  applyWikiLinkSpans(content, SelectSeq(chosen, notExcluded))

\* generateWikiLinks from the spans on: zone filter, mode filter, apply.
linkedContent(content, spans, mode) ==
  LET notExcluded(sp) == ~isInExcludedZone(content, sp.start, sp.end)
      kept == SelectSeq(spans, notExcluded)
      chosen == IF mode = "first" THEN filterFirstMentions(kept) ELSE kept
  IN  applyWikiLinkSpans(content, chosen)

-----------------------------------------------------------------------------
(* The notes the span engine is run on: up to MaxFragments fragments, each  *)
(* a word, a separator, an existing link, an aliased link or inline code.   *)

MaxFragments == 2   \* fragments in a note
MaxSpanLen == 3     \* longest range identifyEntities reports

Fragments ==
  { <<"a", "b">>, <<"A", "b">>, <<"c">>, <<" ">>,
    <<"[", "[", "a", "b", "]", "]">>,
    <<"[", "[", "c", "|", "a", "b", "]", "]">>,
    <<BT, "a", "b", BT>> }

RECURSIVE Concats(_, _)
Concats(frags, n) ==
  IF n = 0 THEN {<<>>}
  ELSE LET shorter == Concats(frags, n - 1)
       IN  shorter \cup {c \o f : c \in shorter, f \in frags}

Contents == Concats(Fragments, MaxFragments)

TitleLists == { << <<"a", "b">> >>, << <<"a", "b">>, <<"a", "b", "c">> >>, << <<"c">> >> }

\* What identifyEntities may report for a range: the text found there, bare
\* or with an alias (one of them holding a bar), or a text that is not there.
EntitySpans(c) ==
  {Span(s, e, Slice(c, s, e), al) :
     s \in 0..(Len(c) - 1), e \in 1..Len(c), al \in {<<>>, <<"c">>, <<"|">>}}
  \cup {Span(s, e, <<"z">>, <<>>) : s \in 0..(Len(c) - 1), e \in 1..Len(c)}

\* identifyEntities reports no span or one span of at most MaxSpanLen
\* characters.
EntitySpanLists(c) ==
  {<<>>} \cup {<<sp>> : sp \in {x \in EntitySpans(c) :
                                 x.start < x.end /\ x.end - x.start <= MaxSpanLen}}

FrontmatterIdle ==
  /\ existing = [k \in Keys |-> Absent]
  /\ MergeIdle
  /\ EnhanceIdle

-----------------------------------------------------------------------------
(* generateWikiLinks *)

\* generateWikiLinks that returns the modified text unvalidated.
generateOutcome_Unchecked(c, sps, md) ==
  [ok |-> TRUE, text |-> linkedContent(c, sps, md)]

\* generateWikiLinks from the spans on: the text it returns, or ok = FALSE
\* when it throws.
generateOutcome(c, sps, md) ==
  LET m == linkedContent(c, sps, md)
  IN  IF validateWikiLinkChanges(c, m) THEN [ok |-> TRUE, text |-> m]
      ELSE [ok |-> FALSE, text |-> <<>>]

InitWiki ==
  /\ UnitsIdle
  /\ FrontmatterIdle
  /\ ValidateIdle
  /\ ZoneIdle
  /\ wContent \in Contents
  /\ wStrategy \in {"existing-only", "all-entities"}
  \* identifyEntities stands for the model, whose answer is any span list
  \* whatever the titles: one title list stands for all of them there.
  /\ wTitles \in IF wStrategy = "existing-only" THEN TitleLists
                 ELSE {<< <<"a", "b">> >>}
  /\ wMode \in {"first", "all"}
  /\ wIdentify \in BOOLEAN
  /\ wSpans = <<>>
  /\ wResult = <<>>
  /\ wpc = "call"

Finish(sps) ==
  LET out == generateOutcome(wContent, sps, wMode)
  IN  /\ wSpans' = sps
      /\ wResult' = out.text
      /\ wpc' = IF out.ok THEN "returned" ELSE "thrown"

\* strategy "existing-only"
GenerateExisting ==
  /\ wpc = "call"
  /\ wStrategy = "existing-only"
  /\ Finish(findTitleMatches(wContent, wTitles))
  /\ UNCHANGED <<wContent, wTitles, wStrategy, wMode, wIdentify>>
  /\ UNCHANGED <<mergeVars, enhanceVars, validateVars, zoneVars, unitVars>>

\* strategy "all-entities" without identifyEntities: it throws.
GenerateNoCallback ==
  /\ wpc = "call"
  /\ wStrategy = "all-entities"
  /\ ~wIdentify
  /\ wpc' = "thrown"
  /\ UNCHANGED <<wContent, wTitles, wStrategy, wMode, wIdentify, wSpans, wResult>>
  /\ UNCHANGED <<mergeVars, enhanceVars, validateVars, zoneVars, unitVars>>

\* strategy "all-entities": identifyEntities reports sps.
GenerateEntities ==
  /\ wpc = "call"
  /\ wStrategy = "all-entities"
  /\ wIdentify
  /\ \E sps \in EntitySpanLists(wContent) : Finish(sps)
  /\ UNCHANGED <<wContent, wTitles, wStrategy, wMode, wIdentify>>
  /\ UNCHANGED <<mergeVars, enhanceVars, validateVars, zoneVars, unitVars>>

\* strategy "all-entities": identifyEntities rejects.
GenerateIdentifyFails ==
  /\ wpc = "call"
  /\ wStrategy = "all-entities"
  /\ wIdentify
  /\ wpc' = "thrown"
  /\ UNCHANGED <<wContent, wTitles, wStrategy, wMode, wIdentify, wSpans, wResult>>
  /\ UNCHANGED <<mergeVars, enhanceVars, validateVars, zoneVars, unitVars>>

NextWiki ==
  \/ GenerateExisting
  \/ GenerateNoCallback
  \/ GenerateEntities
  \/ GenerateIdentifyFails

SpecWiki == InitWiki /\ [][NextWiki]_vars

-----------------------------------------------------------------------------
(* validateWikiLinkChanges on its own *)

InitValidate ==
  /\ UnitsIdle
  /\ FrontmatterIdle
  /\ WikiIdle
  /\ ZoneIdle
  /\ vOriginal \in Contents
  /\ vModified \in Contents
  /\ vValid = FALSE
  /\ vpc = "call"

Validate ==
  /\ vpc = "call"
  /\ vValid' = validateWikiLinkChanges(vOriginal, vModified)
  /\ vpc' = "done"
  /\ UNCHANGED <<vOriginal, vModified>>
  /\ UNCHANGED <<mergeVars, enhanceVars, wikiVars, zoneVars, unitVars>>

NextValidate == Validate

SpecValidate == InitValidate /\ [][NextValidate]_vars

-----------------------------------------------------------------------------
(* isInExcludedZone on its own *)

MetadataBlock == Dashes \o <<NL, "a", "b", NL>> \o Dashes \o <<NL>>

FencedCode == Fence \o <<"a", "b">> \o Fence

\* Notes with or without a leading metadata block, and with fenced code.
ZoneContents ==
  {h \o b : h \in {<<>>, MetadataBlock},
            b \in Concats(Fragments \cup {FencedCode}, MaxFragments)}

InitZone ==
  /\ UnitsIdle
  /\ FrontmatterIdle
  /\ WikiIdle
  /\ ValidateIdle
  /\ zContent \in ZoneContents
  /\ zStart \in 0..(Len(zContent) - 1)
  /\ zEnd \in (zStart + 1)..Len(zContent)
  /\ excluded = FALSE
  /\ zpc = "call"

CheckZone ==
  /\ zpc = "call"
  /\ excluded' = isInExcludedZone(zContent, zStart, zEnd)
  /\ zpc' = "done"
  /\ UNCHANGED <<zContent, zStart, zEnd>>
  /\ UNCHANGED <<mergeVars, enhanceVars, wikiVars, validateVars, unitVars>>

NextZone == CheckZone

SpecZone == InitZone /\ [][NextZone]_vars

-----------------------------------------------------------------------------
(* Properties of the span engine *)

\* C2: removing all link syntax from the string generateWikiLinks returns
\* yields exactly the input content.
C2_StrippedResultIsContent ==
  wpc = "returned" => stripWikiLinks(wResult) = wContent

\* C2, amended: removing all link syntax from the returned string yields the
\* input content with its own link syntax removed, and so the input content
\* itself when it holds no link syntax.
C2_StrippedResultIsStrippedContent ==
  wpc = "returned" =>
    /\ stripWikiLinks(wResult) = stripWikiLinks(wContent)
    /\ stripWikiLinks(wContent) = wContent => stripWikiLinks(wResult) = wContent

\* A note with a link to which a second link is added.
C2_Witness ==
  /\ wpc = "returned"
  /\ wResult # wContent
  /\ stripWikiLinks(wContent) # wContent
  /\ stripWikiLinks(wResult) = stripWikiLinks(wContent)

\* original and modified are the same once every [[target| and every [[ and
\* ]] of a link is taken out.
RoundTrips(o, m) == StripSimpleFrom(StripAliasedFrom(o, 0), 0) = StripSimpleFrom(StripAliasedFrom(m, 0), 0)

\* C4: generateWikiLinks returns a string only if it round-trips to the
\* content, and when the text with the links applied does not round-trip it
\* throws and hands no text to the caller.
C4_ReturnsOnlyValidated ==
  /\ wpc = "returned" => RoundTrips(wContent, wResult)
  /\ wpc \in {"returned", "thrown"}
       /\ ~RoundTrips(wContent, linkedContent(wContent, wSpans, wMode))
       => wpc = "thrown" /\ wResult = <<>>

\* The reported span is applied, the round trip fails, and the call throws.
C4_Witness ==
  /\ wpc = "thrown"
  /\ wSpans # <<>>
  /\ linkedContent(wContent, wSpans, wMode) # wContent
  /\ ~RoundTrips(wContent, linkedContent(wContent, wSpans, wMode))
  /\ wResult = <<>>

RECURSIVE IsSubsequence(_, _)
IsSubsequence(a, b) ==
  IF a = <<>> THEN TRUE
  ELSE IF b = <<>> THEN FALSE
  ELSE IF Head(a) = Head(b) THEN IsSubsequence(Tail(a), Tail(b))
  ELSE IsSubsequence(a, Tail(b))

\* C5: validateWikiLinkChanges returns true only when modified is original
\* with link syntax added: every character of original is still in modified,
\* in the same order.
C5_ValidOnlyForAdditions ==
  vpc = "done" /\ vValid => IsSubsequence(vOriginal, vModified)

\* The regions isInExcludedZone looks for, as [index, end].
ExcludedRegions(c) ==
  (IF frontmatterMatchLength(c) > 0
   THEN {[index |-> 0, end |-> frontmatterMatchLength(c)]} ELSE {})
  \cup Matches(c, 0, TRUE) \cup Matches(c, 0, FALSE)

\* C10: isInExcludedZone returns true whenever any part of [start, end)
\* lies inside the metadata block, an existing link or a code region.
C10_AnyOverlapExcluded ==
  zpc = "done" /\ (\E r \in ExcludedRegions(zContent) : zStart < r.end /\ zEnd > r.index)
    => excluded

-----------------------------------------------------------------------------
(* generateWikiLinks on documents that begin with a metadata block *)

\* The offset at which /^---\n([\s\S]*?)\n---\n?([\s\S]*)$/ of
\* parseFrontmatter closes the block, i.e. of the first "\n---" after the
\* opening line, or -1 when the content does not match.
frontmatterClose(content) ==
  IF At(content, 0, Dashes \o <<NL>>) THEN IndexOf(content, <<NL>> \o Dashes, 4)
  ELSE -1

\* The offset at which match[2], the body, starts: after "\n---" and the
\* newline that may follow it.
frontmatterBodyStart(content) ==
  LET close == frontmatterClose(content)
  IN  IF close = -1 THEN -1
      ELSE IF At(content, close + 4, <<NL>>) THEN close + 5
      ELSE close + 4

\* A metadata block holding "ab", closed by a marker line with or without
\* the newline after it.
DocHeads == {MetadataBlock, Dashes \o <<NL, "a", "b", NL>> \o Dashes}

DocBodies == Concats({<<"a", "b">>, <<" ">>, <<"c">>}, MaxFragments)

Documents == {h \o b : h \in DocHeads, b \in DocBodies}

InitDocument ==
  /\ UnitsIdle
  /\ FrontmatterIdle
  /\ ValidateIdle
  /\ ZoneIdle
  /\ wContent \in Documents
  /\ wStrategy \in {"existing-only", "all-entities"}
  /\ wTitles \in IF wStrategy = "existing-only" THEN TitleLists
                 ELSE {<< <<"a", "b">> >>}
  /\ wMode \in {"first", "all"}
  /\ wIdentify \in BOOLEAN
  /\ wSpans = <<>>
  /\ wResult = <<>>
  /\ wpc = "call"

SpecDocument == InitDocument /\ [][NextWiki]_vars

\* C11: for a document that begins with a metadata block as parseFrontmatter
\* recognises it, generateWikiLinks wraps no occurrence of a title inside
\* the block: the block of the returned text is the block of the content.
C11_BlockNeverWrapped ==
  wpc = "returned" /\ wStrategy = "existing-only"
    /\ frontmatterBodyStart(wContent) # -1
    => Slice(wResult, 0, frontmatterBodyStart(wContent))
         = Slice(wContent, 0, frontmatterBodyStart(wContent))

-----------------------------------------------------------------------------
(* findTitleMatches on its own *)

MaxTitleFragments == 3   \* fragments in the content findTitleMatches scans
MaxTitles == 3           \* titles in the list

\* Words that run into each other or are set apart by a space.
TitleContents ==
  Concats({<<"a", "a">>, <<" ", "b">>, <<" ", "c", "c">>, <<"b">>}, MaxTitleFragments)

\* Titles of two words and of one, one of them too short to be searched for.
TitlePool == {<<"A", "a", " ", "b">>, <<"b", " ", "c", "c">>, <<"c", "c">>, <<"b">>}

InitTitles ==
  /\ FrontmatterIdle
  /\ TextIdle
  /\ MentionIdle /\ ApplyIdle /\ SearchIdle /\ OrderIdle /\ LateIdle
  /\ tContent \in TitleContents
  /\ tTitles \in SeqsUpTo(TitlePool, MaxTitles)
  /\ tMatches = <<>>
  /\ tpc = "call"

FindTitles ==
  /\ tpc = "call"
  /\ tMatches' = findTitleMatches(tContent, tTitles)
  /\ tpc' = "done"
  /\ UNCHANGED <<tContent, tTitles>>
  /\ UNCHANGED <<mergeVars, enhanceVars, wikiVars, validateVars, zoneVars>>
  /\ UNCHANGED <<mentionVars, applyVars, searchVars, orderVars, lateVars>>

NextTitles == FindTitles

SpecTitles == InitTitles /\ [][NextTitles]_vars

-----------------------------------------------------------------------------
(* Properties of findTitleMatches, checked under SpecTitles *)

Letters == {"a", "b", "c", "A"}

\* The character at offset pos is no letter, or pos is outside the content.
NonWordAt(c, pos) == pos < 0 \/ pos >= Len(c) \/ c[pos + 1] \notin Letters

\* Title t occurs at offset i, whatever the case of its letters.
Occurs(c, t, i) == At(toLowerCase(c), i, toLowerCase(t))

\* An occurrence findTitleMatches looks at and that stands between non-word
\* characters.
Qualifies(c, t, i) ==
  Len(t) >= 2 /\ Occurs(c, t, i) /\ NonWordAt(c, i - 1) /\ NonWordAt(c, i + Len(t))

Overlap(s1, e1, s2, e2) == s1 < e2 /\ s2 < e1

Returned(i, e) == \E n \in 1..Len(tMatches) : tMatches[n].start = i /\ tMatches[n].end = e

TitleSet == {tTitles[n] : n \in 1..Len(tTitles)}

Offsets == 0..Len(tContent)

NonOverlapping ==
  \A m, n \in 1..Len(tMatches) :
    m # n => ~Overlap(tMatches[m].start, tMatches[m].end, tMatches[n].start, tMatches[n].end)

\* C12: the returned spans are pairwise non-overlapping, and where
\* occurrences of two titles overlap and both stand between non-word
\* characters, the occurrence of the longer title is returned.
C12_LongerTitleReturned ==
  tpc = "done" =>
    /\ NonOverlapping
    /\ \A t1, t2 \in TitleSet : \A i, j \in Offsets :
         Qualifies(tContent, t1, i) /\ Qualifies(tContent, t2, j)
           /\ Overlap(i, i + Len(t1), j, j + Len(t2)) /\ Len(t1) > Len(t2)
           => Returned(i, i + Len(t1))

\* C12, amended: the returned spans are pairwise non-overlapping, and an
\* occurrence of a title between non-word characters is returned unless it
\* overlaps a returned span at least as long: no shorter title displaces it.
C12_NoShorterTitleDisplaces ==
  tpc = "done" =>
    /\ NonOverlapping
    /\ \A t \in TitleSet : \A i \in Offsets :
         Qualifies(tContent, t, i)
           => \/ Returned(i, i + Len(t))
              \/ \E n \in 1..Len(tMatches) :
                   /\ Overlap(tMatches[n].start, tMatches[n].end, i, i + Len(t))
                   /\ tMatches[n].end - tMatches[n].start >= Len(t)

\* Occurrences of two titles overlap, and that of the longer one is returned.
C12_Witness ==
  /\ tpc = "done"
  /\ \E t1, t2 \in TitleSet : \E i, j \in Offsets :
       /\ Qualifies(tContent, t1, i) /\ Qualifies(tContent, t2, j)
       /\ Overlap(i, i + Len(t1), j, j + Len(t2)) /\ Len(t1) > Len(t2)
       /\ Returned(i, i + Len(t1)) /\ ~Returned(j, j + Len(t2))

\* C13: every returned span is an occurrence of a title with a non-word
\* character, or the start or end of the content, on either side of it.
C13_MatchesWholeWords ==
  tpc = "done" =>
    \A n \in 1..Len(tMatches) :
      /\ NonWordAt(tContent, tMatches[n].start - 1)
      /\ NonWordAt(tContent, tMatches[n].end)
      /\ tMatches[n].text = Slice(tContent, tMatches[n].start, tMatches[n].end)
      /\ \E t \in TitleSet : toLowerCase(t) = toLowerCase(tMatches[n].text)

\* A title occurs inside a longer word, where it is not returned, and as a
\* word of its own, where it is.
C13_Witness ==
  /\ tpc = "done"
  /\ \E t \in TitleSet : \E i, j \in Offsets :
       /\ Len(t) >= 2 /\ Occurs(tContent, t, i) /\ ~NonWordAt(tContent, i + Len(t))
       /\ ~Returned(i, i + Len(t))
       /\ Returned(j, j + Len(t))

-----------------------------------------------------------------------------
(* filterFirstMentions on its own *)

MaxSpans == 3    \* spans in the list given to filterFirstMentions
MaxStart == 3    \* largest start offset of such a span

\* Spans of three texts, two of them equal but for the case of a letter.
MentionPool ==
  {Span(st, st + Len(tx), tx, <<>>) :
     st \in 0..MaxStart, tx \in {<<"a", "b">>, <<"A", "b">>, <<"c">>}}

InitMentions ==
  /\ FrontmatterIdle
  /\ TextIdle
  /\ TitleIdle /\ ApplyIdle /\ SearchIdle /\ OrderIdle /\ LateIdle
  /\ fSpans \in SeqsUpTo(MentionPool, MaxSpans)
  /\ fFirst = <<>>
  /\ fpc = "call"

FilterMentions ==
  /\ fpc = "call"
  /\ fFirst' = filterFirstMentions(fSpans)
  /\ fpc' = "done"
  /\ UNCHANGED fSpans
  /\ UNCHANGED <<mergeVars, enhanceVars, wikiVars, validateVars, zoneVars>>
  /\ UNCHANGED <<titleVars, applyVars, searchVars, orderVars, lateVars>>

NextMentions == FilterMentions

SpecMentions == InitMentions /\ [][NextMentions]_vars

\* The text of a span with its capitals put in lower case.
TextKey(sp) == [i \in 1..Len(sp.text) |-> IF sp.text[i] = "A" THEN "a" ELSE sp.text[i]]

\* C14: filterFirstMentions returns, for each text of the input spans taken
\* without regard to case, exactly one span, one of the input spans with
\* that text of smallest start, and returns the spans by ascending start.
C14_FirstMentionPerText ==
  fpc = "done" =>
    /\ \A m \in 1..Len(fSpans) :
         \E n \in 1..Len(fFirst) :
           /\ TextKey(fFirst[n]) = TextKey(fSpans[m])
           /\ fFirst[n].start <= fSpans[m].start
           /\ \A o \in 1..Len(fFirst) : TextKey(fFirst[o]) = TextKey(fSpans[m]) => o = n
    /\ \A n \in 1..Len(fFirst) : \E m \in 1..Len(fSpans) : fFirst[n] = fSpans[m]
    /\ \A n \in 1..(Len(fFirst) - 1) : fFirst[n].start <= fFirst[n + 1].start

\* Two spans of one text up to case are given with the later one first,
\* before a span of another text that starts before both.
C14_Witness ==
  /\ fpc = "done"
  /\ Len(fSpans) = 3 /\ Len(fFirst) = 2
  /\ TextKey(fSpans[1]) = TextKey(fSpans[2]) /\ fSpans[1].text # fSpans[2].text
  /\ fSpans[1].start > fSpans[2].start
  /\ fSpans[3].start < fSpans[2].start
  /\ fFirst = <<fSpans[3], fSpans[2]>>

-----------------------------------------------------------------------------
(* applyWikiLinkSpans on its own *)

MaxApplyLen == 3     \* length of the content given to applyWikiLinkSpans
MaxApplySpans == 2   \* spans in the list

ApplyText == <<"a", "b", " ", "a", "b", " ", "a", "b">>

\* The first characters of ApplyText.
ApplyContents == {SubSeq(ApplyText, 1, n) : n \in 0..Min(MaxApplyLen, Len(ApplyText))}

\* A span of a range of the content: with the text that is there, bare or
\* with an alias, or with a text that is not there.
ApplySpans(c) ==
  {Span(st, en, IF right THEN Slice(c, st, en) ELSE <<"z">>, al) :
     st \in 0..(Len(c) - 1), en \in 1..Len(c), right \in BOOLEAN,
     al \in {<<>>, <<"c">>}}

InitApply ==
  /\ FrontmatterIdle
  /\ TextIdle
  /\ TitleIdle /\ MentionIdle /\ SearchIdle /\ OrderIdle /\ LateIdle
  /\ aContent \in ApplyContents
  /\ aSpans \in SeqsUpTo({sp \in ApplySpans(aContent) : sp.start < sp.end}, MaxApplySpans)
  /\ aResult = <<>>
  /\ apc = "call"

ApplySpansStep ==
  /\ apc = "call"
  /\ aResult' = applyWikiLinkSpans(aContent, aSpans)
  /\ apc' = "done"
  /\ UNCHANGED <<aContent, aSpans>>
  /\ UNCHANGED <<mergeVars, enhanceVars, wikiVars, validateVars, zoneVars>>
  /\ UNCHANGED <<titleVars, mentionVars, searchVars, orderVars, lateVars>>

NextApply == ApplySpansStep

SpecApply == InitApply /\ [][NextApply]_vars

\* The text of the span is what the content holds at its range.
Matching(c, sp) == SubSeq(c, sp.start + 1, sp.end) = sp.text

PairwiseDisjoint(spans) ==
  \A m, n \in 1..Len(spans) :
    m # n => ~Overlap(spans[m].start, spans[m].end, spans[n].start, spans[n].end)

Wrapped(sp) ==
  <<"[", "[">> \o (IF sp.alias = <<>> THEN <<>> ELSE sp.alias \o <<"|">>)
    \o sp.text \o <<"]", "]">>

\* The content from offset i on, with each matching span wrapped and every
\* other character as it is.
RECURSIVE ExpectedFrom(_, _, _)
ExpectedFrom(c, spans, i) ==
  IF i >= Len(c) THEN <<>>
  ELSE LET here == {n \in 1..Len(spans) : spans[n].start = i /\ Matching(c, spans[n])}
       IN  IF here = {} THEN <<c[i + 1]>> \o ExpectedFrom(c, spans, i + 1)
           ELSE LET n == CHOOSE n \in here : TRUE
                IN  Wrapped(spans[n]) \o ExpectedFrom(c, spans, spans[n].end)

\* C15: a span whose text is not what stands at its range is skipped: for
\* spans that do not overlap, the result is the content with exactly the
\* matching spans wrapped, and in every case no character of the content
\* is replaced or dropped.
C15_MismatchedSpanSkipped ==
  apc = "done" =>
    /\ IsSubsequence(aContent, aResult)
    /\ PairwiseDisjoint(aSpans) => aResult = ExpectedFrom(aContent, aSpans, 0)

\* A span with a wrong text is skipped and another span is applied.
C15_Witness ==
  /\ apc = "done"
  /\ Len(aSpans) = 2
  /\ PairwiseDisjoint(aSpans)
  /\ \E m, n \in 1..2 : ~Matching(aContent, aSpans[m]) /\ Matching(aContent, aSpans[n])
                           /\ aResult = ExpectedFrom(aContent, <<aSpans[n]>>, 0)
  /\ aResult # aContent

-----------------------------------------------------------------------------
(* The enhance-frontmatter command without examples, checked under          *)
(* SpecEnhance                                                              *)

\* C17: when findSimilarNotes returns no example, the command and the bulk
\* operation stop where they are: the model is not invoked, no dialog is
\* opened and nothing is written to the note.
C17_NoExampleNoInvocation ==
  validProperties = {} =>
    /\ epc \in {"start", "refused"}
    /\ response = [k \in Keys |-> Absent]
    /\ enhanced = [k \in Keys |-> Absent]
    /\ modifiedAfterYaml = <<>>
    /\ written = <<>>

\* The bulk operation has stopped on a note that has metadata.
C17_Witness ==
  /\ epc = "refused"
  /\ bulk
  /\ validProperties = {}
  /\ \E k \in Keys : existing[k] # Absent
  /\ written = <<>>

-----------------------------------------------------------------------------
(* findSimilarNotes.  A file of the vault is a record: current for the file *)
(* being enhanced, cached when the metadata cache holds frontmatter for it, *)
(* sameFolder, and props, the property names of that frontmatter.  Property *)
(* names are numbers.  Tag overlap, link connections and recency are taken  *)
(* to be the same for all files and add nothing.  A file is named by its    *)
(* index in the vault.                                                      *)

BASE_HAS_FRONTMATTER == 5
SAME_FOLDER == 3
SUPERSET_BASE == 10
PER_EXTRA_PROP == 2
PER_SHARED_PROP == 2
RICHNESS_CAP == 5

\* The score of one candidate: the body of the loop over the files.
score(file, current) ==
  LET candidateProps == file.props
      currentPropsInCandidate == current \cap candidateProps
      folder == IF file.sameFolder THEN SAME_FOLDER ELSE 0
      overlap ==
        IF Cardinality(current) > 0
             /\ Cardinality(currentPropsInCandidate) = Cardinality(current)
        THEN SUPERSET_BASE
               + (Cardinality(candidateProps) - Cardinality(current)) * PER_EXTRA_PROP
        ELSE IF Cardinality(currentPropsInCandidate) > 0
             THEN Cardinality(currentPropsInCandidate) * PER_SHARED_PROP
             ELSE 0
      richness == Min(Cardinality(candidateProps), RICHNESS_CAP)
  IN  BASE_HAS_FRONTMATTER + folder + overlap + richness

\* The loop over the files from index i on: the current file and the files
\* without cached frontmatter are passed over.
RECURSIVE scoreLoop(_, _, _)
scoreLoop(files, current, i) ==
  IF i > Len(files) THEN <<>>
  ELSE (IF files[i].current \/ ~files[i].cached THEN <<>>
        ELSE <<[file |-> i, score |-> score(files[i], current)]>>)
       \o scoreLoop(files, current, i + 1)

\* A ranking that leaves the candidates in the order of the vault.
rank_Unsorted(list) == list

\* scored.sort((a, b) => b.score - a.score)
rank(list) ==
  LET keyed == [i \in 1..Len(list) |-> [k |-> 0 - list[i].score, x |-> list[i]]]
      sorted == SortByKey(keyed)
  IN  [i \in 1..Len(sorted) |-> sorted[i].x]

\* scored.slice(0, limit)
topFiles == SubSeq(scored, 1, Min(limit, Len(scored)))

ScoreFiles ==
  /\ spc = "call"
  /\ scored' = rank(scoreLoop(sFiles, currentProps, 1))
  /\ sRead' = <<>>
  /\ results' = <<>>
  /\ spc' = IF Min(limit, Len(scored')) = 0 THEN "returned" ELSE "reading"
  /\ UNCHANGED <<sFiles, currentProps, limit>>
  /\ UNCHANGED <<mergeVars, enhanceVars, wikiVars, validateVars, zoneVars>>
  /\ UNCHANGED <<titleVars, mentionVars, applyVars, orderVars, lateVars>>

\* A read that throws ends the loop and the call.
ReadStep_Aborts(outcome) ==
  /\ spc = "reading"
  /\ sRead' = Append(sRead, outcome)
  /\ results' = IF outcome = "ok" THEN Append(results, topFiles[Len(sRead) + 1].file)
                 ELSE results
  /\ spc' = IF outcome = "fail" THEN "thrown"
            ELSE IF Len(sRead) + 1 = Len(topFiles) THEN "returned" ELSE "reading"
  /\ UNCHANGED <<sFiles, currentProps, limit, scored>>
  /\ UNCHANGED <<mergeVars, enhanceVars, wikiVars, validateVars, zoneVars>>
  /\ UNCHANGED <<titleVars, mentionVars, applyVars, orderVars, lateVars>>

\* One turn of the loop over topFiles, whose read and parse end in outcome;
\* after the last turn the results are returned.
ReadStep(outcome) ==
  /\ spc = "reading"
  /\ sRead' = Append(sRead, outcome)
  /\ results' = IF outcome = "ok" THEN Append(results, topFiles[Len(sRead) + 1].file)
                 ELSE results
  /\ spc' = IF Len(sRead) + 1 = Len(topFiles) THEN "returned" ELSE "reading"
  /\ UNCHANGED <<sFiles, currentProps, limit, scored>>
  /\ UNCHANGED <<mergeVars, enhanceVars, wikiVars, validateVars, zoneVars>>
  /\ UNCHANGED <<titleVars, mentionVars, applyVars, orderVars, lateVars>>

\* The file is read and its frontmatter has at least one property.
ReadOk == ReadStep("ok")

\* The file is read and has no frontmatter, or an empty one.
ReadEmpty == ReadStep("empty")

\* app.vault.read rejects: the catch block goes on with the next file.
ReadFails == ReadStep("fail")

NextSearch ==
  \/ ScoreFiles
  \/ ReadOk
  \/ ReadEmpty
  \/ ReadFails

MaxTargetProps == 7   \* properties of the note being enhanced
MaxExtra == 1         \* properties of a candidate that the note has not
MaxFiles == 2         \* files in the vault
MaxLimit == 2         \* largest limit

\* The property names of a candidate for a note with properties 1..n: none,
\* all but one or all of them, and up to MaxExtra others.
CandidateProps(n) ==
  {(1..sh) \cup (101..(100 + ex)) : sh \in {0, n - 1, n} \cap (0..n), ex \in 0..MaxExtra}

Candidates(n, folders) ==
  {[current |-> FALSE, cached |-> TRUE, sameFolder |-> sf, props |-> ps] :
     sf \in folders, ps \in CandidateProps(n)}

\* The file being enhanced, and a file without frontmatter.
CurrentFile == [current |-> TRUE, cached |-> TRUE, sameFolder |-> TRUE, props |-> {}]
PlainFile == [current |-> FALSE, cached |-> FALSE, sameFolder |-> FALSE, props |-> {}]

\* Two candidates for a note of up to MaxTargetProps properties, with the
\* default limit.
InitScore ==
  /\ FrontmatterIdle
  /\ TextIdle
  /\ TitleIdle /\ MentionIdle /\ ApplyIdle /\ OrderIdle /\ LateIdle
  /\ \E n \in 0..MaxTargetProps :
       /\ currentProps = 1..n
       /\ sFiles \in [1..2 -> Candidates(n, BOOLEAN)]
  /\ limit = 5
  /\ scored = <<>>
  /\ sRead = <<>>
  /\ results = <<>>
  /\ spc = "call"

SpecScore == InitScore /\ [][NextSearch]_vars

\* A vault of up to MaxFiles files around a note with one property.
InitSearch ==
  /\ FrontmatterIdle
  /\ TextIdle
  /\ TitleIdle /\ MentionIdle /\ ApplyIdle /\ OrderIdle /\ LateIdle
  /\ currentProps = {1}
  /\ sFiles \in SeqsUpTo(Candidates(1, {FALSE}) \cup {CurrentFile, PlainFile}, MaxFiles)
  /\ limit \in 0..MaxLimit
  /\ scored = <<>>
  /\ sRead = <<>>
  /\ results = <<>>
  /\ spc = "call"

SpecSearch == InitSearch /\ [][NextSearch]_vars

-----------------------------------------------------------------------------
(* Properties of findSimilarNotes *)

\* C16: of two candidates in the same folder position, the one whose
\* property names are a strict superset of the note's scores strictly
\* higher than the one that shares only some of the note's property names.
C16_SupersetOutranksPartial ==
  spc # "call" =>
    \A a, b \in 1..Len(scored) :
      LET fa == sFiles[scored[a].file]
          fb == sFiles[scored[b].file]
      IN  /\ fa.sameFolder = fb.sameFolder
          /\ currentProps \subseteq fa.props /\ currentProps # fa.props
          /\ fb.props \cap currentProps # {}
          /\ ~(currentProps \subseteq fb.props)
          => scored[a].score > scored[b].score

\* The files findSimilarNotes scores: all but the current file and the
\* files without cached frontmatter.
CandidateFiles == {i \in 1..Len(sFiles) : ~sFiles[i].current /\ sFiles[i].cached}

\* The place of file i in the ranking.
RankOf(i) == CHOOSE m \in 1..Len(scored) : scored[m].file = i

\* C18: the candidates are ranked by descending score with ties in the
\* order of the vault, and the notes returned are among the first `limit`
\* of the ranking, at most `limit` of them, in the order of the ranking.
C18_RankedAndTruncated ==
  spc \in {"reading", "returned"} =>
    /\ {scored[m].file : m \in 1..Len(scored)} = CandidateFiles
    /\ Len(scored) = Cardinality(CandidateFiles)
    /\ \A m \in 1..Len(scored) :
         scored[m].score = score(sFiles[scored[m].file], currentProps)
    /\ \A m, n \in 1..Len(scored) :
         m < n => \/ scored[m].score > scored[n].score
                  \/ scored[m].score = scored[n].score /\ scored[m].file < scored[n].file
    /\ Len(results) <= limit
    /\ \A m \in 1..Len(results) : results[m] \in CandidateFiles /\ RankOf(results[m]) <= limit
    /\ \A m, n \in 1..Len(results) : m < n => RankOf(results[m]) < RankOf(results[n])

\* The second file of the vault outranks the first, the limit cuts the
\* first off, and the second is returned.
C18_Witness ==
  /\ spc = "returned"
  /\ Len(scored) = 2 /\ limit = 1
  /\ scored[1].file = 2 /\ scored[1].score > scored[2].score
  /\ results = <<2>>

\* The files of the first n of topFiles whose read ended well.
RECURSIVE ReadWell(_)
ReadWell(n) ==
  IF n = 0 THEN <<>>
  ELSE ReadWell(n - 1) \o (IF sRead[n] = "ok" THEN <<topFiles[n].file>> ELSE <<>>)

\* C19: a selected candidate whose read or parse fails, or that has no
\* metadata, is passed over alone: the call does not throw, and the result
\* holds every selected candidate read so far that was read well.
C19_FailedReadSkipped ==
  /\ spc \in {"idle", "call", "reading", "returned"}
  /\ spc \in {"reading", "returned"} =>
       /\ Len(sRead) <= Len(topFiles)
       /\ results = ReadWell(Len(sRead))
  /\ spc = "returned" => Len(sRead) = Len(topFiles)

\* The read of the first selected candidate fails and the second candidate
\* is returned.
C19_Witness ==
  /\ spc = "returned"
  /\ sRead = <<"fail", "ok">>
  /\ results = <<topFiles[2].file>>

-----------------------------------------------------------------------------
(* computePropertyOrder.  An example is the sequence of its property names, *)
(* Object.keys(example.frontmatter).                                        *)

MaxExamples == 2    \* examples given to computePropertyOrder

OrderKeys == {"a", "b", "c"}

\* The sequences of distinct property names, one at least.
KeyLists ==
  {ks \in SeqsUpTo(OrderKeys, Cardinality(OrderKeys)) :
     ks # <<>> /\ \A i, j \in 1..Len(ks) : i # j => ks[i] # ks[j]}

\* The sum of the indexes at which key stands in the examples, and the
\* number of examples that hold it.
RECURSIVE positionSum(_, _)
positionSum(exs, key) ==
  IF exs = <<>> THEN 0
  ELSE positionSum(Tail(exs), key)
       + (IF \E i \in 1..Len(Head(exs)) : Head(exs)[i] = key
          THEN (CHOOSE i \in 1..Len(Head(exs)) : Head(exs)[i] = key) - 1
          ELSE 0)

RECURSIVE positionCount(_, _)
positionCount(exs, key) ==
  IF exs = <<>> THEN 0
  ELSE positionCount(Tail(exs), key)
       + (IF \E i \in 1..Len(Head(exs)) : Head(exs)[i] = key THEN 1 ELSE 0)

\* Object.keys(positionSums): the keys in the order they were first set.
RECURSIVE insertionOrder(_, _)
insertionOrder(keys, seen) ==
  IF keys = <<>> THEN <<>>
  ELSE IF Head(keys) \in seen THEN insertionOrder(Tail(keys), seen)
  ELSE <<Head(keys)>> \o insertionOrder(Tail(keys), seen \cup {Head(keys)})

RECURSIVE flatten(_)
flatten(exs) == IF exs = <<>> THEN <<>> ELSE Head(exs) \o flatten(Tail(exs))

\* a.avg - b.avg < 0, the averages being sum / count
avgLess(a, b) == a.sum * b.count < b.sum * a.count

\* avgPositions.sort((a, b) => a.avg - b.avg): ascending and stable
RECURSIVE InsertByAvg(_, _)
InsertByAvg(sorted, r) ==
  IF sorted = <<>> THEN <<r>>
  ELSE IF avgLess(r, Head(sorted)) THEN <<r>> \o sorted
  ELSE <<Head(sorted)>> \o InsertByAvg(Tail(sorted), r)

RECURSIVE SortByAvg(_)
SortByAvg(rs) ==
  IF rs = <<>> THEN <<>>
  ELSE InsertByAvg(SortByAvg(SubSeq(rs, 1, Len(rs) - 1)), rs[Len(rs)])

computePropertyOrder(exs) ==
  LET keys == insertionOrder(flatten(exs), {})
      avgPositions == [i \in 1..Len(keys) |->
                         [key |-> keys[i], sum |-> positionSum(exs, keys[i]),
                          count |-> positionCount(exs, keys[i])]]
      sorted == SortByAvg(avgPositions)
  IN  [i \in 1..Len(sorted) |-> sorted[i].key]

InitOrder ==
  /\ FrontmatterIdle
  /\ TextIdle
  /\ TitleIdle /\ MentionIdle /\ ApplyIdle /\ SearchIdle /\ LateIdle
  /\ examples \in SeqsUpTo(KeyLists, MaxExamples)
  /\ propertyOrder = <<>>
  /\ opc = "call"

ComputeOrder ==
  /\ opc = "call"
  /\ propertyOrder' = computePropertyOrder(examples)
  /\ opc' = "done"
  /\ UNCHANGED examples
  /\ UNCHANGED <<mergeVars, enhanceVars, wikiVars, validateVars, zoneVars>>
  /\ UNCHANGED <<titleVars, mentionVars, applyVars, searchVars, lateVars>>

NextOrder == ComputeOrder

SpecOrder == InitOrder /\ [][NextOrder]_vars

\* p stands before q in the sequence ks.
Before(ks, p, q) == \E i, j \in 1..Len(ks) : i < j /\ ks[i] = p /\ ks[j] = q

\* No two properties stand in opposite orders in two examples.
Consistent(exs) ==
  \A m, n \in 1..Len(exs) : \A p, q \in OrderKeys :
    ~(Before(exs[m], p, q) /\ Before(exs[n], q, p))

\* C20: for examples whose properties are in consistent relative order,
\* propertyOrder places every property before each property that stands
\* after it in some example.
C20_OrderFollowsExamples ==
  opc = "done" /\ Consistent(examples) =>
    \A m \in 1..Len(examples) : \A p, q \in OrderKeys :
      Before(examples[m], p, q) => Before(propertyOrder, p, q)

-----------------------------------------------------------------------------
(* Idempotence of mergeFrontmatter, checked under SpecMerge *)

\* C28: merging the same enhanced object into the result of the merge
\* changes nothing more.
C28_MergeIdempotent ==
  mpc = "done" => mergeFrontmatter(merged, enhanced) = merged

\* The first merge has added items to a list and filled a null value.
C28_Witness ==
  /\ mpc = "done"
  /\ existing["tags"].t = "list" /\ merged["tags"].t = "list"
  /\ Len(merged["tags"].v) > Len(existing["tags"].v)
  /\ existing["title"] = Null /\ merged["title"].t = "str"
  /\ mergeFrontmatter(merged, enhanced) = merged

-----------------------------------------------------------------------------
(* Mode "first" of generateWikiLinks, checked under SpecWiki *)

\* The span is outside every excluded zone of the content.
Eligible(sp) == ~isInExcludedZone(wContent, sp.start, sp.end)

\* The eligible spans that no eligible span of the same text, case aside,
\* precedes.
FirstEligible ==
  LET first(sp) ==
        /\ Eligible(sp)
        /\ \A n \in 1..Len(wSpans) :
             Eligible(wSpans[n]) /\ TextKey(wSpans[n]) = TextKey(sp)
               => sp.start <= wSpans[n].start
  IN  SelectSeq(wSpans, first)

\* C24: in mode "first" the zones are excluded before the first mentions
\* are taken: the first mention outside the excluded zones is wrapped, also
\* when an earlier mention lies inside a zone.
C24_ExclusionBeforeFirstMention ==
  wpc = "returned" /\ wMode = "first" /\ PairwiseDisjoint(FirstEligible)
    => wResult = ExpectedFrom(wContent, FirstEligible, 0)

\* The earliest mention lies in an existing link and a later one is wrapped.
C24_Witness ==
  /\ wpc = "returned" /\ wMode = "first"
  /\ \E m, n \in 1..Len(wSpans) :
       /\ TextKey(wSpans[m]) = TextKey(wSpans[n])
       /\ wSpans[m].start < wSpans[n].start
       /\ ~Eligible(wSpans[m]) /\ Eligible(wSpans[n])
       /\ \A o \in 1..Len(wSpans) : wSpans[o].start >= wSpans[m].start
       /\ wResult = ExpectedFrom(wContent, <<wSpans[n]>>, 0)
  /\ wResult # wContent

-----------------------------------------------------------------------------
(* applyWikiLinkSpans on matching spans, checked under SpecApply *)

Reversed(seq) == [i \in 1..Len(seq) |-> seq[Len(seq) + 1 - i]]

\* The number of characters the spans add: four brackets each, and the
\* alias with its bar.
RECURSIVE AddedLength(_)
AddedLength(spans) ==
  IF spans = <<>> THEN 0
  ELSE 4 + (IF Head(spans).alias = <<>> THEN 0 ELSE Len(Head(spans).alias) + 1)
         + AddedLength(Tail(spans))

\* C25: for pairwise non-overlapping spans that each match the content,
\* in whatever order they are given, every span's range is wrapped where it
\* stands and every other character is left as it is and in its place.
C25_EveryMatchingSpanWrapped ==
  apc = "done" /\ PairwiseDisjoint(aSpans)
    /\ (\A n \in 1..Len(aSpans) : Matching(aContent, aSpans[n]))
    => /\ aResult = ExpectedFrom(aContent, aSpans, 0)
       /\ Len(aResult) = Len(aContent) + AddedLength(aSpans)
       /\ applyWikiLinkSpans(aContent, Reversed(aSpans)) = aResult

\* Two matching spans are given with the earlier one first, one of them
\* with an alias.
C25_Witness ==
  /\ apc = "done"
  /\ Len(aSpans) = 2 /\ PairwiseDisjoint(aSpans)
  /\ Matching(aContent, aSpans[1]) /\ Matching(aContent, aSpans[2])
  /\ aSpans[1].start < aSpans[2].start
  /\ aSpans[1].alias # <<>> /\ aSpans[2].alias = <<>>
  /\ Len(aResult) = Len(aContent) + AddedLength(aSpans)

-----------------------------------------------------------------------------
(* generateWikiLinks run again on its own output, strategy "existing-only" *)

MaxAgainFragments == 3   \* fragments in a note that is linked twice

AgainFragments ==
  { <<"a", "b">>, <<"A", "b">>, <<" ">>,
    <<"[", "[", "a", "b", "]", "]">>, <<BT, "a", "b", BT>> }

AgainContents == Concats(AgainFragments, MaxAgainFragments)

InitAgain ==
  /\ TitleIdle /\ MentionIdle /\ ApplyIdle /\ SearchIdle /\ OrderIdle /\ ArrangeIdle /\ ParseIdle /\ CommandIdle /\ SkillIdle /\ BulkIdle
  /\ FrontmatterIdle
  /\ ValidateIdle
  /\ ZoneIdle
  /\ wContent \in AgainContents
  /\ wStrategy = "existing-only"
  /\ wTitles \in TitleLists
  /\ wMode \in {"first", "all"}
  /\ wIdentify = FALSE
  /\ wSpans = <<>>
  /\ wResult = <<>>
  /\ wpc = "call"
  /\ wAgain = <<>>
  /\ rpc = "idle"

\* The first call, which leaves the second one to come.
GenerateFirst ==
  /\ wpc = "call"
  /\ wStrategy = "existing-only"
  /\ Finish(findTitleMatches(wContent, wTitles))
  /\ rpc' = IF wpc' = "returned" THEN "call" ELSE "idle"
  /\ UNCHANGED <<wContent, wTitles, wStrategy, wMode, wIdentify, wAgain>>
  /\ UNCHANGED <<mergeVars, enhanceVars, validateVars, zoneVars>>
  /\ UNCHANGED <<titleVars, mentionVars, applyVars, searchVars, orderVars, arrangeVars, parseVars, commandVars, skillVars, bulkVars>>

\* The second call: content is what the first call returned, titles and
\* mode are the same.
GenerateAgain ==
  /\ rpc = "call"
  /\ LET out == generateOutcome(wResult, findTitleMatches(wResult, wTitles), wMode)
     IN  /\ wAgain' = out.text
         /\ rpc' = IF out.ok THEN "returned" ELSE "thrown"
  /\ UNCHANGED <<mergeVars, enhanceVars, wikiVars, validateVars, zoneVars>>
  /\ UNCHANGED <<titleVars, mentionVars, applyVars, searchVars, orderVars, arrangeVars, parseVars, commandVars, skillVars, bulkVars>>

NextAgain ==
  \/ GenerateFirst
  \/ GenerateAgain

SpecAgain == InitAgain /\ [][NextAgain]_vars

-----------------------------------------------------------------------------
(* orderFrontmatter.  A JavaScript object is the sequence of its own       *)
(* entries in the order Object.keys lists them: the integer-like keys in   *)
(* ascending order first, then the other keys in the order they were set.  *)

MaxEntries == 3    \* properties of the frontmatter
MaxOrderLen == 2   \* names in propertyOrder

IndexKeys == {"1", "2"}
IndexValue(k) == IF k = "1" THEN 1 ELSE 2

\* Some of the names every object inherits from Object.prototype.
ObjectPrototype == {"constructor"}
Inherited == "Object"

KeyNames == {"a", "b", "1", "2", "constructor"}

Entry(k, v) == [k |-> k, v |-> v]

ownKeys(o) == [i \in 1..Len(o) |-> o[i].k]

hasOwn(o, k) == \E i \in 1..Len(o) : o[i].k = k

\* key in o
hasProperty(o, k) == hasOwn(o, k) \/ k \in ObjectPrototype

\* o[key]
getProperty(o, k) ==
  IF hasOwn(o, k) THEN (CHOOSE e \in {o[i] : i \in 1..Len(o)} : e.k = k).v
  ELSE IF k \in ObjectPrototype THEN Inherited
  ELSE "undefined"

\* o[key] = v
setProperty(o, k, v) ==
  IF hasOwn(o, k)
  THEN [i \in 1..Len(o) |-> IF o[i].k = k THEN Entry(k, v) ELSE o[i]]
  ELSE IF k \in IndexKeys
  THEN LET before(e) == e.k \in IndexKeys /\ IndexValue(e.k) < IndexValue(k)
           after(e) == ~before(e)
       IN  SelectSeq(o, before) \o <<Entry(k, v)>> \o SelectSeq(o, after)
  ELSE Append(o, Entry(k, v))

\* The first loop of orderFrontmatter.
RECURSIVE addOrdered(_, _, _)
addOrdered(fm, order, ordered) ==
  IF order = <<>> THEN ordered
  ELSE LET key == Head(order)
       IN  addOrdered(fm, Tail(order),
                      IF hasProperty(fm, key)
                      THEN setProperty(ordered, key, getProperty(fm, key))
                      ELSE ordered)

\* The second loop, over what is left of the Set of the keys.
RECURSIVE addRemaining(_, _, _)
addRemaining(fm, remaining, ordered) ==
  IF remaining = <<>> THEN ordered
  ELSE addRemaining(fm, Tail(remaining),
                    setProperty(ordered, Head(remaining), getProperty(fm, Head(remaining))))

orderFrontmatter(fm, order) ==
  IF order = <<>> THEN fm
  ELSE LET deleted(k) == \A i \in 1..Len(order) : order[i] # k
           remaining == SelectSeq(ownKeys(fm), deleted)
       IN  addRemaining(fm, remaining, addOrdered(fm, order, <<>>))

\* The objects a parse can produce.
IsObject(o) ==
  /\ \A i, j \in 1..Len(o) : i # j => o[i].k # o[j].k
  /\ \A i, j \in 1..Len(o) : i < j =>
        \/ o[j].k \notin IndexKeys
        \/ o[i].k \in IndexKeys /\ IndexValue(o[i].k) < IndexValue(o[j].k)

Objects ==
  {o \in SeqsUpTo({Entry(k, v) : k \in KeyNames, v \in {"x", "y"}}, MaxEntries) : IsObject(o)}

InitArrange ==
  /\ FrontmatterIdle
  /\ TextIdle
  /\ TitleIdle /\ MentionIdle /\ ApplyIdle /\ SearchIdle /\ OrderIdle /\ AgainIdle /\ ParseIdle /\ CommandIdle /\ SkillIdle /\ BulkIdle
  /\ dFrontmatter \in Objects
  /\ dOrder \in SeqsUpTo(KeyNames, MaxOrderLen)
  /\ dOrdered = <<>>
  /\ dpc = "call"

Arrange ==
  /\ dpc = "call"
  /\ dOrdered' = orderFrontmatter(dFrontmatter, dOrder)
  /\ dpc' = "done"
  /\ UNCHANGED <<dFrontmatter, dOrder>>
  /\ UNCHANGED <<mergeVars, enhanceVars, wikiVars, validateVars, zoneVars>>
  /\ UNCHANGED <<titleVars, mentionVars, applyVars, searchVars, orderVars, againVars, parseVars, commandVars, skillVars, bulkVars>>

NextArrange == Arrange

SpecArrange == InitArrange /\ [][NextArrange]_vars

\* The names of order that the frontmatter holds, each once, in order's
\* order.
RECURSIVE Present(_, _, _)
Present(fm, order, seen) ==
  IF order = <<>> THEN <<>>
  ELSE IF hasOwn(fm, Head(order)) /\ Head(order) \notin seen
  THEN <<Head(order)>> \o Present(fm, Tail(order), seen \cup {Head(order)})
  ELSE Present(fm, Tail(order), seen)

Others(fm, order) ==
  LET other(k) == \A i \in 1..Len(order) : order[i] # k
  IN  SelectSeq(ownKeys(fm), other)

SameEntries(a, b) == {a[i] : i \in 1..Len(a)} = {b[i] : i \in 1..Len(b)}

\* C21: orderFrontmatter returns the entries of frontmatter, the keys of
\* propertyOrder that frontmatter holds first and in propertyOrder's order,
\* the other keys after them in their original order, and the input itself
\* for an empty propertyOrder.
C21_OrderedEntries ==
  dpc = "done" =>
    /\ SameEntries(dOrdered, dFrontmatter)
    /\ ownKeys(dOrdered) = Present(dFrontmatter, dOrder, {}) \o Others(dFrontmatter, dOrder)
    /\ dOrder = <<>> => dOrdered = dFrontmatter

-----------------------------------------------------------------------------
(* parseFrontmatter and buildContent.  parseYaml and stringifyYaml are the *)
(* library's; they are modelled on the texts used here: blank text, "{}",  *)
(* lines "k: value" with distinct one-letter keys, one plain word, each    *)
(* after a document marker "---" or without one, and an unclosed "[",      *)
(* which is no YAML.                                                       *)

MaxBodyFragments == 2   \* fragments of the text after the metadata block

YamlLetters == {"a", "b", "c"}

\* s.split("\n")
RECURSIVE SplitLines(_)
SplitLines(s) ==
  LET n == IndexOf(s, <<NL>>, 0)
  IN  IF n = -1 THEN <<s>>
      ELSE <<Slice(s, 0, n)>> \o SplitLines(Slice(s, n + 1, Len(s)))

\* s.trim()
RECURSIVE Trim(_)
Trim(s) ==
  IF s = <<>> THEN s
  ELSE IF s[1] \in {" ", NL} THEN Trim(Tail(s))
  ELSE IF s[Len(s)] \in {" ", NL} THEN Trim(SubSeq(s, 1, Len(s) - 1))
  ELSE s

IsWord(l) == l # <<>> /\ \A i \in 1..Len(l) : l[i] \in YamlLetters

IsPropertyLine(l) ==
  /\ Len(l) >= 4
  /\ l[1] \in YamlLetters /\ l[2] = ":" /\ l[3] = " "
  /\ IsWord(SubSeq(l, 4, Len(l)))

NullValue == [kind |-> "null", v |-> <<>>]
ObjectValue(entries) == [kind |-> "object", v |-> entries]
StringValue(s) == [kind |-> "string", v |-> s]
Thrown == [kind |-> "thrown", v |-> <<>>]
Unmodelled == [kind |-> "unmodelled", v |-> <<>>]

\* parseYaml(rawYaml) of frontmatter.ts
parseYamlText(rawYaml) ==
  LET notBlank(l) == Trim(l) # <<>>
      all == SelectSeq(SplitLines(rawYaml), notBlank)
      \* a first line "---" is the marker that starts the YAML document
      ls == IF all # <<>> /\ all[1] = Dashes THEN Tail(all) ELSE all
  IN  IF ls = <<>> THEN NullValue
      ELSE IF ls = << <<"{", "}">> >> THEN ObjectValue(<<>>)
      ELSE IF /\ \A i \in 1..Len(ls) : IsPropertyLine(ls[i])
              /\ \A i, j \in 1..Len(ls) : i # j => ls[i][1] # ls[j][1]
      THEN ObjectValue([i \in 1..Len(ls) |-> Entry(ls[i][1], SubSeq(ls[i], 4, Len(ls[i])))])
      ELSE IF Len(ls) = 1 /\ IsWord(ls[1]) THEN StringValue(ls[1])
      ELSE IF ls[1] = <<"[">> THEN Thrown
      ELSE Unmodelled

RECURSIVE PropertyLines(_)
PropertyLines(entries) ==
  IF entries = <<>> THEN <<>>
  ELSE <<Head(entries).k, ":", " ">> \o Head(entries).v \o <<NL>>
         \o PropertyLines(Tail(entries))

\* stringifyYaml(frontmatter) of frontmatter.ts
stringifyYamlText(fm) ==
  IF fm.kind = "string" THEN fm.v \o <<NL>>
  ELSE IF fm.v = <<>> THEN <<"{", "}", NL>>
  ELSE PropertyLines(fm.v)

NoText == [kind |-> "null", v |-> <<>>]
Text(s) == [kind |-> "text", v |-> s]

\* parseFrontmatter that keeps the body of the match when the metadata
\* does not parse.
parseFrontmatter_MatchedBody(content) ==
  LET close == frontmatterClose(content)
      rawYaml == Slice(content, 4, close)
      body == Slice(content, frontmatterBodyStart(content), Len(content))
      parsed == parseYamlText(rawYaml)
  IN  IF close = -1
      THEN [frontmatter |-> NullValue, body |-> content, raw |-> NoText]
      ELSE IF parsed = Thrown
      THEN [frontmatter |-> NullValue, body |-> body, raw |-> NoText]
      ELSE [frontmatter |-> IF parsed = NullValue THEN ObjectValue(<<>>) ELSE parsed,
            body |-> body, raw |-> Text(rawYaml)]

parseFrontmatter(content) ==
  LET close == frontmatterClose(content)
      rawYaml == Slice(content, 4, close)
      body == Slice(content, frontmatterBodyStart(content), Len(content))
      parsed == parseYamlText(rawYaml)
  IN  IF close = -1
      THEN [frontmatter |-> NullValue, body |-> content, raw |-> NoText]
      ELSE IF parsed = Thrown
      THEN [frontmatter |-> NullValue, body |-> content, raw |-> NoText]
      ELSE [frontmatter |-> IF parsed = NullValue THEN ObjectValue(<<>>) ELSE parsed,
            body |-> body, raw |-> Text(rawYaml)]

\* buildContent without the newline between the metadata and the closing
\* marker.
buildContent_NoNewline(fm, body) ==
  Dashes \o <<NL>> \o Trim(stringifyYamlText(fm)) \o Dashes \o <<NL>> \o body

buildContent(fm, body) ==
  Dashes \o <<NL>> \o Trim(stringifyYamlText(fm)) \o <<NL>> \o Dashes \o <<NL>> \o body

\* The metadata texts: none, one property with or without a blank line
\* after it, two properties in either order, a word, "{}", and "[".
YamlTexts ==
  { <<>>,
    <<"a", ":", " ", "b">>,
    <<"a", ":", " ", "b", NL>>,
    <<"a", ":", " ", "b", NL, "c", ":", " ", "a", "b">>,
    <<"c", ":", " ", "a", "b", NL, "a", ":", " ", "b">>,
    <<"a", "b">>,
    <<"{", "}">>,
    <<"[">> }

\* What follows the closing marker, and the notes without a block.
Tails == Concats({<<"a", "b">>, <<NL>>, Dashes}, MaxBodyFragments)

ParseContents ==
  {Dashes \o <<NL>> \o y \o <<NL>> \o Dashes \o t : y \in YamlTexts, t \in Tails}
  \cup Tails
  \cup {Dashes \o <<NL>> \o t : t \in Tails}

NotParsed == [frontmatter |-> NullValue, body |-> <<>>, raw |-> NoText]

InitParse ==
  /\ FrontmatterIdle
  /\ TextIdle
  /\ TitleIdle /\ MentionIdle /\ ApplyIdle /\ SearchIdle /\ OrderIdle /\ AgainIdle /\ ArrangeIdle /\ CommandIdle /\ SkillIdle /\ BulkIdle
  /\ pContent \in ParseContents
  /\ pParsed = NotParsed
  /\ pBuilt = <<>>
  /\ pReparsed = NotParsed
  /\ ppc = "call"

Parse ==
  /\ ppc = "call"
  /\ pParsed' = parseFrontmatter(pContent)
  /\ ppc' = "parsed"
  /\ UNCHANGED <<pContent, pBuilt, pReparsed>>
  /\ UNCHANGED <<mergeVars, enhanceVars, wikiVars, validateVars, zoneVars>>
  /\ UNCHANGED <<titleVars, mentionVars, applyVars, searchVars, orderVars, againVars, arrangeVars, commandVars, skillVars, bulkVars>>

\* buildContent(parseFrontmatter(X).frontmatter, parseFrontmatter(X).body)
Build ==
  /\ ppc = "parsed"
  /\ pParsed.frontmatter # NullValue
  /\ pBuilt' = buildContent(pParsed.frontmatter, pParsed.body)
  /\ ppc' = "built"
  /\ UNCHANGED <<pContent, pParsed, pReparsed>>
  /\ UNCHANGED <<mergeVars, enhanceVars, wikiVars, validateVars, zoneVars>>
  /\ UNCHANGED <<titleVars, mentionVars, applyVars, searchVars, orderVars, againVars, arrangeVars, commandVars, skillVars, bulkVars>>

Reparse ==
  /\ ppc = "built"
  /\ pReparsed' = parseFrontmatter(pBuilt)
  /\ ppc' = "done"
  /\ UNCHANGED <<pContent, pParsed, pBuilt>>
  /\ UNCHANGED <<mergeVars, enhanceVars, wikiVars, validateVars, zoneVars>>
  /\ UNCHANGED <<titleVars, mentionVars, applyVars, searchVars, orderVars, againVars, arrangeVars, commandVars, skillVars, bulkVars>>

NextParse ==
  \/ Parse
  \/ Build
  \/ Reparse

SpecParse == InitParse /\ [][NextParse]_vars

\* Every metadata text that reaches parseYaml is one of the modelled texts.
ParseModelled ==
  /\ pParsed.frontmatter # Unmodelled
  /\ pReparsed.frontmatter # Unmodelled

NoBlock(content) ==
  \/ ~At(content, 0, Dashes \o <<NL>>)
  \/ \A i \in 4..Len(content) : ~At(content, i, <<NL>> \o Dashes)

\* The metadata text of a well-formed block is no YAML.
Malformed(content) ==
  /\ ~NoBlock(content)
  /\ \E y \in YamlTexts :
       /\ parseYamlText(y) = Thrown
       /\ At(content, 4, y \o <<NL>> \o Dashes)

\* C23: without a well-formed block, or with one whose text does not
\* parse, parseFrontmatter returns frontmatter null, raw null and the whole
\* input as body.
C23_FallbackKeepsContent ==
  ppc # "call" /\ (NoBlock(pContent) \/ Malformed(pContent))
    => pParsed = [frontmatter |-> NullValue, body |-> pContent, raw |-> NoText]

\* A note whose block holds "[" and is followed by text has been parsed.
C23_Witness ==
  /\ ppc = "parsed"
  /\ Malformed(pContent)
  /\ Len(pContent) > frontmatterBodyStart(pContent)
  /\ pParsed.body = pContent

-----------------------------------------------------------------------------
(* The identify-wiki-links command and its review dialog *)

MaxCommandFragments == 3   \* fragments of the text the command processes

CommandContents == Concats({<<"a", "b">>, <<NL>>, <<"c">>}, MaxCommandFragments)

CommandTitles == << <<"a", "b">> >>

\* What identifyWikiLinks may report: no span, or one span of one or two
\* characters with the text found there, bare or with an alias that is a
\* line break or a bar.
CommandSpanLists(c) ==
  {<<>>} \cup
  {<<Span(st, st + n, Slice(c, st, st + n), al)>> :
     st \in 0..(Len(c) - 1), n \in 1..2, al \in {<<>>, <<NL>>, <<"|">>}}

\* lines.join("\n")
RECURSIVE JoinLines(_)
JoinLines(ls) ==
  IF ls = <<>> THEN <<>>
  ELSE IF Len(ls) = 1 THEN ls[1]
  ELSE ls[1] \o <<NL>> \o JoinLines(Tail(ls))

\* ContentDiffModal.revertLine
revertLine(beforeContent, modifiedContent, addedContent) ==
  LET modifiedLines == SplitLines(modifiedContent)
      beforeLines == SplitLines(beforeContent)
      found == {i \in 1..Len(modifiedLines) : modifiedLines[i] = addedContent}
  IN  IF found = {} THEN modifiedContent
      ELSE LET modifiedIndex == CHOOSE i \in found : \A j \in found : i <= j
           IN  IF modifiedIndex <= Len(beforeLines)
               THEN JoinLines([modifiedLines EXCEPT ![modifiedIndex] = beforeLines[modifiedIndex]])
               ELSE modifiedContent

\* The lines of the dialog's text that the diff shows as added.
ClickableLines(beforeContent, modifiedContent) ==
  LET modifiedLines == SplitLines(modifiedContent)
      beforeLines == SplitLines(beforeContent)
  IN  {modifiedLines[i] : i \in {j \in 1..Len(modifiedLines) :
                                    j > Len(beforeLines) \/ modifiedLines[j] # beforeLines[j]}}

\* The end of the command for an applied result, without the final
\* validation.
applyResult_Unvalidated(contentToProcess, modifiedContent) ==
  Text(modifiedContent)

\* The end of the command for an applied result: what is put into the
\* editor, if anything.
applyResult(contentToProcess, modifiedContent) ==
  IF validateWikiLinkChanges(contentToProcess, modifiedContent)
  THEN Text(modifiedContent)
  ELSE NoText

InitCommand ==
  /\ FrontmatterIdle
  /\ TextIdle
  /\ TitleIdle /\ MentionIdle /\ ApplyIdle /\ SearchIdle /\ OrderIdle /\ AgainIdle /\ ArrangeIdle /\ ParseIdle /\ SkillIdle /\ BulkIdle
  /\ cContent \in CommandContents
  /\ cStrategy \in {"existing-only", "all-entities"}
  /\ cMode \in {"first", "all"}
  /\ cModified = <<>>
  /\ cDialog = <<>>
  /\ cWritten = NoText
  /\ cpc = "call"

\* From the return of generateWikiLinks to the opening of the dialog.
Review(out) ==
  IF ~out.ok THEN cpc' = "failed" /\ UNCHANGED <<cModified, cDialog>>
  ELSE /\ cModified' = out.text
       /\ IF ~validateWikiLinkChanges(cContent, out.text)
          THEN cpc' = "invalid" /\ UNCHANGED cDialog
          ELSE IF out.text = cContent
          THEN cpc' = "nochange" /\ UNCHANGED cDialog
          ELSE cpc' = "review" /\ cDialog' = out.text

CommandExisting ==
  /\ cpc = "call"
  /\ cStrategy = "existing-only"
  /\ Review(generateOutcome(cContent, findTitleMatches(cContent, CommandTitles), cMode))
  /\ UNCHANGED <<cContent, cStrategy, cMode, cWritten>>
  /\ UNCHANGED <<mergeVars, enhanceVars, wikiVars, validateVars, zoneVars>>
  /\ UNCHANGED <<titleVars, mentionVars, applyVars, searchVars, orderVars, againVars, arrangeVars, parseVars, skillVars, bulkVars>>

CommandEntities ==
  /\ cpc = "call"
  /\ cStrategy = "all-entities"
  /\ \E sps \in CommandSpanLists(cContent) : Review(generateOutcome(cContent, sps, cMode))
  /\ UNCHANGED <<cContent, cStrategy, cMode, cWritten>>
  /\ UNCHANGED <<mergeVars, enhanceVars, wikiVars, validateVars, zoneVars>>
  /\ UNCHANGED <<titleVars, mentionVars, applyVars, searchVars, orderVars, againVars, arrangeVars, parseVars, skillVars, bulkVars>>

\* identifyWikiLinks rejects.
CommandIdentifyFails ==
  /\ cpc = "call"
  /\ cStrategy = "all-entities"
  /\ cpc' = "failed"
  /\ UNCHANGED <<cContent, cStrategy, cMode, cModified, cDialog, cWritten>>
  /\ UNCHANGED <<mergeVars, enhanceVars, wikiVars, validateVars, zoneVars>>
  /\ UNCHANGED <<titleVars, mentionVars, applyVars, searchVars, orderVars, againVars, arrangeVars, parseVars, skillVars, bulkVars>>

\* The user clicks an added line.
RevertLine ==
  /\ cpc = "review"
  /\ \E addedContent \in ClickableLines(cContent, cDialog) :
       cDialog' = revertLine(cContent, cDialog, addedContent)
  /\ UNCHANGED <<cContent, cStrategy, cMode, cModified, cWritten, cpc>>
  /\ UNCHANGED <<mergeVars, enhanceVars, wikiVars, validateVars, zoneVars>>
  /\ UNCHANGED <<titleVars, mentionVars, applyVars, searchVars, orderVars, againVars, arrangeVars, parseVars, skillVars, bulkVars>>

\* "Apply changes"
ApplyChanges ==
  /\ cpc = "review"
  /\ cWritten' = applyResult(cContent, cDialog)
  /\ cpc' = IF cWritten' = NoText THEN "rejected" ELSE "applied"
  /\ UNCHANGED <<cContent, cStrategy, cMode, cModified, cDialog>>
  /\ UNCHANGED <<mergeVars, enhanceVars, wikiVars, validateVars, zoneVars>>
  /\ UNCHANGED <<titleVars, mentionVars, applyVars, searchVars, orderVars, againVars, arrangeVars, parseVars, skillVars, bulkVars>>

\* "Cancel", or the dialog is closed.
CloseDialog ==
  /\ cpc = "review"
  /\ cpc' = "discarded"
  /\ UNCHANGED <<cContent, cStrategy, cMode, cModified, cDialog, cWritten>>
  /\ UNCHANGED <<mergeVars, enhanceVars, wikiVars, validateVars, zoneVars>>
  /\ UNCHANGED <<titleVars, mentionVars, applyVars, searchVars, orderVars, againVars, arrangeVars, parseVars, skillVars, bulkVars>>

NextCommand ==
  \/ CommandExisting
  \/ CommandEntities
  \/ CommandIdentifyFails
  \/ RevertLine
  \/ ApplyChanges
  \/ CloseDialog

SpecCommand == InitCommand /\ [][NextCommand]_vars

\* C26: the editor is changed only by Apply and only with text that passes
\* validateWikiLinkChanges against the processed text, reverted lines or
\* not; otherwise it is left as it was.
C26_EditorOnlyValidated ==
  /\ cWritten # NoText =>
       /\ cpc = "applied"
       /\ stripWikiLinks(cWritten.v) = stripWikiLinks(cContent)
  /\ cpc # "applied" => cWritten = NoText

\* The user has reverted one of two linked lines and applied the rest.
C26_Witness ==
  /\ cpc = "applied"
  /\ cWritten.v # cModified
  /\ cWritten.v # cContent
  /\ stripWikiLinks(cWritten.v) = stripWikiLinks(cContent)

-----------------------------------------------------------------------------
(* SkillManager.checkForUpdates and forceRefresh.  A step is one task of   *)
(* the event loop with the promise reactions it sets off: a call up to     *)
(* its await, or the arrival of one response.                              *)

MaxSources == 2   \* entries of SKILL_SOURCES
MaxCallers == 2   \* callers of checkForUpdates and forceRefresh
MaxRounds == 3    \* checks started in one behaviour

Sources == 1..MaxSources
Callers == 1..MaxCallers
Rounds == 1..MaxRounds

\* The checks with a fetch that has not settled.
InFlight == {r \in Rounds : uPending[r] # {}}

\* checkForUpdates that starts a check whatever updatePromise holds.
startsCheck_Always(updatePromise) == TRUE

\* if (this.updatePromise) return this.updatePromise
startsCheck(updatePromise) == updatePromise = 0

InitSkills ==
  /\ FrontmatterIdle
  /\ TextIdle
  /\ TitleIdle /\ MentionIdle /\ ApplyIdle /\ SearchIdle /\ OrderIdle /\ AgainIdle /\ ArrangeIdle /\ ParseIdle /\ CommandIdle /\ BulkIdle
  /\ uPromise = 0
  /\ uRounds = 0
  /\ uPending = [r \in Rounds |-> {}]
  /\ uWait = [c \in Callers |-> 0]
  /\ uCache \in [Sources -> {"none", "v1"}]

\* checkForUpdates up to its await, for caller c.
checkForUpdates(c) ==
  IF startsCheck(uPromise)
  THEN /\ uRounds < MaxRounds
       /\ uRounds' = uRounds + 1
       /\ uPromise' = uRounds + 1
       /\ uPending' = [uPending EXCEPT ![uRounds + 1] = Sources]
       /\ uWait' = [uWait EXCEPT ![c] = uRounds + 1]
  ELSE /\ uWait' = [uWait EXCEPT ![c] = uPromise]
       /\ UNCHANGED <<uPromise, uRounds, uPending>>

CheckForUpdates ==
  /\ \E c \in Callers : uWait[c] = 0 /\ checkForUpdates(c)
  /\ UNCHANGED uCache
  /\ UNCHANGED <<mergeVars, enhanceVars, wikiVars, validateVars, zoneVars>>
  /\ UNCHANGED <<titleVars, mentionVars, applyVars, searchVars, orderVars, againVars, arrangeVars, parseVars, commandVars, bulkVars>>

ForceRefresh ==
  /\ \E c \in Callers : uWait[c] = 0 /\ checkForUpdates(c)
  /\ uCache' = [s \in Sources |-> IF uCache[s] = "none" THEN "none" ELSE ""]
  /\ UNCHANGED <<mergeVars, enhanceVars, wikiVars, validateVars, zoneVars>>
  /\ UNCHANGED <<titleVars, mentionVars, applyVars, searchVars, orderVars, againVars, arrangeVars, parseVars, commandVars, bulkVars>>

\* The fetch of source s of check r settles: updateSkillIfNeeded goes on,
\* and with the last of them Promise.allSettled, performUpdateCheck, the
\* finally of the call that started the check and the calls that await it.
FetchSettles ==
  /\ \E r \in InFlight : \E s \in uPending[r] : \E sha \in {"failed", "v1", "v2"} :
       /\ uCache' = IF sha = "failed" THEN uCache ELSE [uCache EXCEPT ![s] = sha]
       /\ uPending' = [uPending EXCEPT ![r] = @ \ {s}]
       /\ IF uPending[r] = {s}
          THEN /\ uPromise' = 0
               /\ uWait' = [c \in Callers |-> IF uWait[c] = r THEN 0 ELSE uWait[c]]
          ELSE UNCHANGED <<uPromise, uWait>>
  /\ UNCHANGED uRounds
  /\ UNCHANGED <<mergeVars, enhanceVars, wikiVars, validateVars, zoneVars>>
  /\ UNCHANGED <<titleVars, mentionVars, applyVars, searchVars, orderVars, againVars, arrangeVars, parseVars, commandVars, bulkVars>>

NextSkills ==
  \/ CheckForUpdates
  \/ ForceRefresh
  \/ FetchSettles

SpecSkills == InitSkills /\ [][NextSkills]_vars

\* Caller c makes a call in this step.
Calls(c) == uWait[c] = 0 /\ uWait'[c] # 0

\* C29: at most one check is in flight; a call made while a check runs
\* starts no fetches and awaits the running check, whose end ends the call;
\* a call made when no check runs starts a new one.
C29_SingleCheckInFlight ==
  [][ /\ Cardinality(InFlight') <= 1
      /\ \A c \in Callers : Calls(c) =>
            IF InFlight # {}
            THEN uWait'[c] \in InFlight /\ uPending' = uPending /\ uRounds' = uRounds
            ELSE uRounds' = uRounds + 1 /\ uWait'[c] = uRounds' /\ uPending'[uRounds'] = Sources
      /\ \A c \in Callers : uWait'[c] # 0 => uWait'[c] \in InFlight' ]_vars

\* A second check runs after the first has ended, and both callers await
\* it while one of its fetches has settled.
C29_Witness ==
  /\ uRounds = 2
  /\ \A c \in Callers : uWait[c] = 2
  /\ uPending[2] # {} /\ uPending[2] # Sources
  /\ uPending[1] = {}

-----------------------------------------------------------------------------
(* bulkRenameUntitled and bulkEnhanceFrontmatter.  A step is one task of   *)
(* the event loop: the call up to its first await, the end of one file's   *)
(* processing up to the next await, or a click on Cancel.                  *)

MaxBulkFiles == 3   \* files in the list

\* The loop without the test of cancelled.
loopContinues_IgnoresCancel(i, total, cancelled) == i < total

\* for (let i = 0; i < files.length; i++) { if (cancelled) break; ...
loopContinues(i, total, cancelled) == i < total /\ ~cancelled

InitBulk ==
  /\ FrontmatterIdle
  /\ TextIdle
  /\ TitleIdle /\ MentionIdle /\ ApplyIdle /\ SearchIdle /\ OrderIdle /\ AgainIdle /\ ArrangeIdle /\ ParseIdle /\ CommandIdle /\ SkillIdle
  /\ bKind \in {"rename", "enhance"}
  /\ bTotal \in 0..MaxBulkFiles
  /\ bIndex = 0
  /\ bCurrent = 0
  /\ bCancelled = FALSE
  /\ bStarted = <<>>
  /\ bCancelAt = -1
  /\ bModified = {}
  /\ bResults = <<0, 0>>
  /\ bpc = "call"

\* The head of the loop at index i: the next file is started, or the loop
\* is left and the run completes.
LoopHead(i) ==
  /\ bIndex' = i
  /\ IF loopContinues(i, bTotal, bCancelled)
     THEN /\ bCurrent' = i + 1
          /\ bStarted' = Append(bStarted, i + 1)
          /\ bpc' = "processing"
     ELSE /\ bCurrent' = 0
          /\ bpc' = "complete"
          /\ UNCHANGED bStarted

BulkStart ==
  /\ bpc = "call"
  /\ LoopHead(0)
  /\ UNCHANGED <<bKind, bTotal, bCancelled, bCancelAt, bModified, bResults>>
  /\ UNCHANGED <<mergeVars, enhanceVars, wikiVars, validateVars, zoneVars>>
  /\ UNCHANGED <<titleVars, mentionVars, applyVars, searchVars, orderVars, againVars, arrangeVars, parseVars, commandVars, skillVars>>

\* generateTitleForFile or enhanceFrontmatterForFile of the current file
\* resolves to true or false, or rejects; the loop goes on.
FileSettles ==
  /\ bpc = "processing"
  /\ \E outcome \in {"true", "false", "rejected"} :
       /\ bModified' = IF outcome = "true" THEN bModified \cup {bCurrent} ELSE bModified
       /\ bResults' = IF outcome = "true" THEN <<bResults[1] + 1, bResults[2]>>
                      ELSE <<bResults[1], bResults[2] + 1>>
  /\ LoopHead(bIndex + 1)
  /\ UNCHANGED <<bKind, bTotal, bCancelled, bCancelAt>>
  /\ UNCHANGED <<mergeVars, enhanceVars, wikiVars, validateVars, zoneVars>>
  /\ UNCHANGED <<titleVars, mentionVars, applyVars, searchVars, orderVars, againVars, arrangeVars, parseVars, commandVars, skillVars>>

\* The click on Cancel, which disables the button.
PressCancel ==
  /\ bpc = "processing"
  /\ ~bCancelled
  /\ bCancelled' = TRUE
  /\ bCancelAt' = Len(bStarted)
  /\ UNCHANGED <<bKind, bTotal, bIndex, bCurrent, bStarted, bModified, bResults, bpc>>
  /\ UNCHANGED <<mergeVars, enhanceVars, wikiVars, validateVars, zoneVars>>
  /\ UNCHANGED <<titleVars, mentionVars, applyVars, searchVars, orderVars, againVars, arrangeVars, parseVars, commandVars, skillVars>>

NextBulk ==
  \/ BulkStart
  \/ FileSettles
  \/ PressCancel

SpecBulk == InitBulk /\ [][NextBulk]_vars

\* C30: the files are started one after the other in list order, each
\* after the one before it has ended, and no file is started or changed
\* that had not been started when Cancel was pressed.
C30_CancelStopsAtNextFile ==
  /\ bStarted = [n \in 1..Len(bStarted) |-> n]
  /\ Len(bStarted) <= bTotal
  /\ bModified \subseteq 1..Len(bStarted)
  /\ Len(bStarted) = bResults[1] + bResults[2] + (IF bpc = "processing" THEN 1 ELSE 0)
  /\ bCancelAt # -1 => Len(bStarted) = bCancelAt
  /\ bpc = "complete" /\ bCancelAt = -1 => Len(bStarted) = bTotal

\* Cancel was pressed while the first of three files was processed; that
\* file was changed and the run has ended without the other two.
C30_Witness ==
  /\ bpc = "complete"
  /\ bTotal = 3
  /\ bCancelAt = 1
  /\ bStarted = <<1>>
  /\ bModified = {1}

====
